---- MODULE Spec2Model ----
(***************************************************************************)
(* Model of the validation engine of BondIT-ApS/dnssec-validator:          *)
(*   app/dnssec_validator.py  DNSSECValidator (chain of trust, verdict)    *)
(*   app/tlsa_validator.py    TLSAValidator   (TLSA/DANE association)      *)
(*                                                                         *)
(* Texts (domain names, error messages, hex strings) are sequences of      *)
(* tokens so that parsing, formatting and case folding are computed and    *)
(* not assumed.  A domain text is a sequence of labels and "." tokens;     *)
(* a hex string is a sequence of one-character strings; a message is a     *)
(* sequence of words.  Byte strings are sequences of numbers 0..255.       *)
(* The timestamps (validation_time, query_time_ms, connect_time_ms) are    *)
(* left out: no modelled decision reads them.                              *)
(***************************************************************************)
EXTENDS Integers, Sequences, FiniteSets, TLC

\* Longest DNSKEY / DS answer the resolver returns in the model.
MaxRecords == 2

\* The most calls of validate() and validate_detailed() on one validator.
MaxCalls == 2

\* DNSSEC validator objects of the model.
Validators == {"v1", "r1", "p1", "p2", "f", "a1", "a2"}

\* The validator that meets every answer of the model; the others, which
\* run twice, side by side or one after the other, meet a few of them.
Wide == {"v1"}

(***************************************************************************)
(* dns.name.from_text / str(dns.name.Name)                                 *)
(***************************************************************************)
RECURSIVE Split(_)
\* Labels of a domain text: the tokens between the "." tokens.
Split(t) ==
    IF t = <<>> THEN <<"">>
    ELSE IF Head(t) = "." THEN <<"">> \o Split(Tail(t))
    ELSE LET r == Split(Tail(t)) IN <<Head(t) \o Head(r)>> \o Tail(r)

\* dns.name.from_text raises EmptyLabel for an empty label that is not the
\* root label at the end.
FromTextRaises(t) ==
    LET l == Split(t) IN t # <<".">> /\ \E i \in 1..(Len(l) - 1) : l[i] = ""

\* dns.name.from_text(text): an absolute name, the root label "" last.
FromText(t) ==
    LET l == Split(t)
    IN  IF t = <<".">> THEN <<"">> ELSE IF l[Len(l)] = "" THEN l ELSE l \o <<"">>

RECURSIVE JoinLabels(_)
\* The labels joined by ".".
JoinLabels(n) ==
    IF Len(n) = 1 THEN (IF n[1] = "" THEN <<>> ELSE <<n[1]>>)
    ELSE <<n[1], ".">> \o JoinLabels(Tail(n))

\* str(name): the labels joined by ".", so an absolute name ends with ".";
\* the root name is ".".
ToText(n) == IF n = <<"">> THEN <<".">> ELSE JoinLabels(n)

(***************************************************************************)
(* domain_utils                                                            *)
(***************************************************************************)
\* A text is a sequence of pieces: "." and "<LF>" (a line feed) stand for
\* themselves, every other piece is a run of characters of one kind.
LowerPieces == {"www", "api", "bondit", "dk", "co", "uk", "com", "a", "x63",
                "http", "https", "ftp", "ssh", "user", "path", "frag", "q", "r", "u"}
DigitPieces == {"v1", "1", "8080"}
OtherPieces == {"WWW", "COM", "_", " ", "<TAB>", ":", "/", "?", "#", "@", "[", "="}

\* The number of characters of a piece.
PieceLen(c) ==
    CASE c \in {"www", "api", "com", "WWW", "COM", "ftp", "ssh"} -> 3
      [] c = "bondit" -> 6
      [] c \in {"dk", "co", "uk", "v1"} -> 2
      [] c \in {"http", "user", "path", "frag", "8080"} -> 4
      [] c = "https" -> 5
      [] c = "x63" -> 63
      [] OTHER -> 1

RECURSIVE TextLen(_)
\* len(text)
TextLen(t) == IF t = <<>> THEN 0 ELSE PieceLen(Head(t)) + TextLen(Tail(t))

RECURSIVE SplitDots(_)
\* text.split("."): the parts, each a text of its own.
SplitDots(t) ==
    IF t = <<>> THEN << <<>> >>
    ELSE IF Head(t) = "." THEN << <<>> >> \o SplitDots(Tail(t))
    ELSE LET r == SplitDots(Tail(t)) IN << <<Head(t)>> \o Head(r) >> \o Tail(r)

RECURSIVE JoinDots(_)
\* ".".join(parts)
JoinDots(parts) ==
    IF Len(parts) = 0 THEN <<>>
    ELSE IF Len(parts) = 1 THEN parts[1]
    ELSE parts[1] \o <<".">> \o JoinDots(Tail(parts))

\* parts[-n:]
LastParts(parts, n) ==
    IF Len(parts) <= n THEN parts ELSE SubSeq(parts, Len(parts) - n + 1, Len(parts))

\* [a-z0-9]([a-z0-9-]*[a-z0-9])? matches the whole part.
LabelMatches(part) ==
    /\ part # <<>>
    /\ \A i \in 1..Len(part) : part[i] \in LowerPieces \cup DigitPieces \cup {"-"}
    /\ part[1] # "-"
    /\ part[Len(part)] # "-"

\* [a-z]{2,} matches the whole part.
TldMatches(part) ==
    /\ \A i \in 1..Len(part) : part[i] \in LowerPieces
    /\ TextLen(part) >= 2

\* re.match(domain_pattern, domain): labels, then a dot and the last label, up
\* to the end of the text; `$` also matches before a line feed that ends
\* the text.
PatternMatches(t) ==
    LET body  == IF t # <<>> /\ t[Len(t)] = "<LF>" THEN SubSeq(t, 1, Len(t) - 1) ELSE t
        parts == SplitDots(body)
    IN  /\ Len(parts) >= 2
        /\ \A i \in 1..(Len(parts) - 1) : LabelMatches(parts[i])
        /\ TldMatches(parts[Len(parts)])

\* is_valid_domain_format
IsValidDomainFormat(t) ==
    /\ t # <<>>
    /\ TextLen(t) <= 253
    /\ \E i \in 1..Len(t) : t[i] = "."
    /\ t[1] # "."
    /\ t[Len(t)] # "."
    /\ ~\E i \in 1..(Len(t) - 1) : t[i] = "." /\ t[i + 1] = "."
    /\ PatternMatches(t)

\* The compound TLDs of extract_root_domain.
two_part_tlds ==
    { <<a, ".", b>> : a \in {"co"}, b \in {"uk", "nz", "jp", "in", "za"} }
        \cup { <<"com", ".", "au">>, <<"org", ".", "uk">>, <<"net", ".", "uk">>,
               <<"ac", ".", "uk">>, <<"gov", ".", "uk">>, <<"edu", ".", "au">> }

\* Python's None for a text.
NoneText == <<"None">>

\* Mutant of ExtractRootDomain: the compound TLDs are not known.
ExtractRootDomain_LastTwo(t) ==
    IF ~IsValidDomainFormat(t) THEN NoneText
    ELSE LET parts == SplitDots(t)
         IN  IF Len(parts) <= 2 THEN t
             ELSE LET root_candidate == JoinDots(LastParts(parts, 2))
                  IN  IF IsValidDomainFormat(root_candidate) THEN root_candidate ELSE t

\* extract_root_domain
ExtractRootDomain(t) ==
    IF ~IsValidDomainFormat(t) THEN NoneText
    ELSE LET parts == SplitDots(t)
         IN  IF Len(parts) <= 2 THEN t
             ELSE LET last_two == JoinDots(LastParts(parts, 2))
                      root_candidate ==
                          IF last_two \in two_part_tlds
                          THEN JoinDots(LastParts(parts, 3))
                          ELSE last_two
                  IN  IF IsValidDomainFormat(root_candidate) THEN root_candidate ELSE t

\* has_subdomain
HasSubdomain(t) == IsValidDomainFormat(t) /\ Len(SplitDots(t)) > 2

\* get_fallback_domains
GetFallbackDomains(t) ==
    IF t = <<>> THEN <<>>
    ELSE IF HasSubdomain(t)
              /\ ExtractRootDomain(t) # NoneText
              /\ ExtractRootDomain(t) # t
         THEN <<t, ExtractRootDomain(t)>>
         ELSE <<t>>

(***************************************************************************)
(* hex strings                                                             *)
(***************************************************************************)
HexChars == <<"0","1","2","3","4","5","6","7","8","9","a","b","c","d","e","f">>

\* bytes.hex(): two lowercase hex digits per byte.
Hex(b) ==
    [ i \in 1..(2 * Len(b)) |->
        IF i % 2 = 1 THEN HexChars[(b[(i + 1) \div 2] \div 16) + 1]
                     ELSE HexChars[(b[i \div 2] % 16) + 1] ]

\* str.lower() on one character of a hex string or one word of a message.
LowerTok(c) ==
    CASE c = "A" -> "a" [] c = "B" -> "b" [] c = "C" -> "c"
      [] c = "D" -> "d" [] c = "E" -> "e" [] c = "F" -> "f"
      [] c = "DS" -> "ds" [] c = "DNSKEY" -> "dnskey" [] c = "No" -> "no"
      [] c = "Domain" -> "domain"
      [] c = "WWW" -> "www" [] c = "COM" -> "com"
      [] OTHER -> c

\* str.lower()
Lower(s) == [i \in 1..Len(s) |-> LowerTok(s[i])]

\* `needle in text` for token sequences.
Contains(text, needle) ==
    \E i \in 0..(Len(text) - Len(needle)) :
        SubSeq(text, i + 1, i + Len(needle)) = needle

(***************************************************************************)
(* domain_utils: the input of a user                                       *)
(***************************************************************************)
\* str.strip(): white space is dropped at both ends.
RECURSIVE Strip(_)
Strip(t) ==
    IF t = <<>> THEN t
    ELSE IF Head(t) \in {" ", "<TAB>", "<LF>"} THEN Strip(Tail(t))
    ELSE IF t[Len(t)] \in {" ", "<TAB>", "<LF>"} THEN Strip(SubSeq(t, 1, Len(t) - 1))
    ELSE t

\* text.replace(" ", "")
RemoveSpaces(t) == SelectSeq(t, LAMBDA c : c # " ")

\* text.split(c)[0] for each c of seps in turn: the text before the first
\* character that is one of seps.
Before(t, seps) ==
    IF \E i \in 1..Len(t) : t[i] \in seps
    THEN SubSeq(t, 1, (CHOOSE i \in 1..Len(t) :
                          t[i] \in seps /\ \A j \in 1..(i - 1) : t[j] \notin seps) - 1)
    ELSE t

\* The "://" of a text.
SchemeSep == <<":", "/", "/">>

\* text.split("://", 1)[1]: the text after the first "://".
AfterSchemeSep(t) ==
    LET i == CHOOSE k \in 0..(Len(t) - 3) :
                 /\ SubSeq(t, k + 1, k + 3) = SchemeSep
                 /\ \A j \in 0..(k - 1) : SubSeq(t, j + 1, j + 3) # SchemeSep
    IN  SubSeq(t, i + 4, Len(t))

\* text.startswith(("http://", "https://", "ftp://"))
StartsWithScheme(t) ==
    /\ Len(t) >= 4
    /\ t[1] \in {"http", "https", "ftp"}
    /\ SubSeq(t, 2, 4) = SchemeSep

\* The netloc urlparse finds in a text that starts with a scheme and "://":
\* what follows up to the first "/", "?" or "#".
Netloc(t) == Before(SubSeq(t, 5, Len(t)), {"/", "?", "#"})

\* urlparse raises ValueError for a netloc with an unmatched bracket.
UrlparseRaises(t) == \E i \in 1..Len(Netloc(t)) : Netloc(t)[i] = "["

\* urlparse(text).hostname: the netloc after its last "@" and before its
\* first ":", in lower case, and None when that is empty.
Hostname(t) ==
    LET netloc   == Netloc(t)
        ats      == {i \in 1..Len(netloc) : netloc[i] = "@"}
        hostinfo == IF ats = {} THEN netloc
                    ELSE SubSeq(netloc, (CHOOSE i \in ats : \A j \in ats : j <= i) + 1,
                                Len(netloc))
        host     == Before(hostinfo, {":"})
    IN  IF host = <<>> THEN NoneText ELSE Lower(host)

\* extract_domain_from_input
ExtractDomainFromInput(user_input) ==
    IF user_input = <<>> THEN NoneText
    ELSE
      LET text     == Lower(RemoveSpaces(Strip(user_input)))
          hostname == IF StartsWithScheme(text) /\ ~UrlparseRaises(text)
                      THEN Hostname(text) ELSE NoneText
          domain_part ==
              IF Contains(text, SchemeSep)
              THEN Before(Before(AfterSchemeSep(text), {"/"}), {":"})
              ELSE <<>>
          domain   == Before(Before(text, {"/", "?", "#"}), {":"})
      IN  IF hostname # NoneText THEN hostname
          ELSE IF domain_part # <<>> /\ IsValidDomainFormat(domain_part) THEN domain_part
          ELSE IF IsValidDomainFormat(domain) THEN domain
          ELSE NoneText

(***************************************************************************)
(* DNS resolver: what resolver.resolve(name, rdtype) can do                *)
(***************************************************************************)
\* Exceptions of resolver.resolve.  NXDOMAIN and NoAnswer say the records do
\* not exist; Timeout and NoNameservers (SERVFAIL) are transport failures.
AbsenceExc   == {"NXDOMAIN", "NoAnswer"}
TransportExc == {"Timeout", "SERVFAIL"}

Raise(e)   == [kind |-> "raise", exc |-> e, rrset |-> <<>>]
Answer(rs) == [kind |-> "answer", exc |-> "", rrset |-> rs]

\* Sequences over S of length 0..n.
SeqUpTo(S, n) == UNION {[1..k -> S] : k \in 0..n}

\* DNSKEY rdata: flags, protocol, algorithm and the key bytes.  readable =
\* FALSE is a record object whose wire form cannot be produced (a mocked
\* record): dns.dnssec.key_id raises on it.
DnskeyRdata ==
    { [flags |-> 257, protocol |-> 3, algorithm |-> 13, key |-> <<1, 2>>, readable |-> TRUE],
      [flags |-> 256, protocol |-> 3, algorithm |-> 8,  key |-> <<3>>,    readable |-> TRUE],
      [flags |-> 257, protocol |-> 3, algorithm |-> 8,  key |-> <<9>>,    readable |-> FALSE] }

\* DS rdata.  1296 is the key tag of the first DNSKEY above, 11111 that of
\* none.  readable = FALSE: reading rr.digest raises.
DsRdata ==
    { [key_tag |-> 1296,  algorithm |-> 13, digest_type |-> 2, digest |-> <<171, 205>>, readable |-> TRUE],
      [key_tag |-> 11111, algorithm |-> 8,  digest_type |-> 2, digest |-> <<10>>,       readable |-> TRUE],
      [key_tag |-> 1296,  algorithm |-> 13, digest_type |-> 1, digest |-> <<1>>,        readable |-> FALSE] }

DnskeyOutcomes ==
    {Raise(e) : e \in AbsenceExc \cup TransportExc}
        \cup {Answer(rs) : rs \in SeqUpTo(DnskeyRdata, MaxRecords)}

\* The few answers: no answer, or one record that can be read.
Few(outcomes) ==
    { o \in outcomes :
        \/ o.kind = "raise" /\ o.exc = "NoAnswer"
        \/ o.kind = "answer" /\ Len(o.rrset) = 1 /\ o.rrset[1].readable }

\* What resolver.resolve(domain, 'DNSKEY') can meet for a validator.
DnskeyOutcomesOf(v) == IF v \in Wide THEN DnskeyOutcomes ELSE Few(DnskeyOutcomes)

DsOutcomes ==
    {Raise(e) : e \in AbsenceExc \cup TransportExc}
        \cup {Answer(rs) : rs \in SeqUpTo(DsRdata, MaxRecords)}

\* What resolver.resolve(domain, 'DS') can meet for a validator.
DsOutcomesOf(v) == IF v \in Wide THEN DsOutcomes ELSE Few(DsOutcomes)

(***************************************************************************)
(* dns.dnssec.key_id (RFC 4034 appendix B)                                 *)
(***************************************************************************)
\* DNSKEY rdata in wire form: flags (2 bytes), protocol, algorithm, key.
ToWire(rr) ==
    <<rr.flags \div 256, rr.flags % 256, rr.protocol, rr.algorithm>> \o rr.key

RECURSIVE WireSum(_, _)
WireSum(w, i) ==
    IF i > Len(w) THEN 0
    ELSE (IF i % 2 = 1 THEN w[i] * 256 ELSE w[i]) + WireSum(w, i + 1)

\* dns.dnssec.key_id(rr) for the algorithms other than RSAMD5.
KeyId(rr) ==
    LET total == WireSum(ToWire(rr), 1)
    IN (total + ((total \div 65536) % 65536)) % 65536

(***************************************************************************)
(* DNSSECValidator: state                                                  *)
(***************************************************************************)
VARIABLES
    live,          \* the objects this run may construct
    pc,            \* where each DNSSECValidator is in __init__ / validate()
    domain,        \* self.domain
    domain_name,   \* self.domain_name
    results,       \* self.results
    dnskey_rrset,  \* local of _validate_chain_of_trust
    ds_rrset,      \* local of _validate_chain_of_trust
    chain_valid,   \* local of validate()
    dnsLog         \* the resolver.resolve calls made for each validator, in order

dnssecVars == <<pc, domain, domain_name, results, dnskey_rrset, ds_rrset,
                chain_valid, dnsLog>>

\* Domain texts handed to the constructor: a plain name, the same name
\* fully qualified, and a malformed one with an empty label.
Domains ==
    { <<"bondit", ".", "dk">>,
      <<"bondit", ".", "dk", ".">>,
      <<"bad", ".", ".", "dk">> }

\* Domain texts of validators on which validate_with_fallback is called: the
\* empty text, names with and without a subdomain, under a compound TLD,
\* and a fully qualified one.
FallbackInputs ==
    { <<>>,
      <<"bondit", ".", "dk">>,
      <<"www", ".", "bondit", ".", "dk">>,
      <<"api", ".", "www", ".", "bondit", ".", "dk">>,
      <<"bondit", ".", "co", ".", "uk">>,
      <<"www", ".", "bondit", ".", "co", ".", "uk">>,
      <<"www", ".", "bondit", ".", "dk", ".">> }

\* Python's None for an rrset, and an rrset value.
NoneRrset    == [isNone |-> TRUE,  rrs |-> <<>>]
SomeRrset(r) == [isNone |-> FALSE, rrs |-> r]

\* tlsa_summary = None
NoSummary ==
    [status |-> "None", records_found |-> 0, dane_status |-> "None", message |-> "None"]

\* The dict built by __init__.
InitResults(d) ==
    [ domain         |-> d,
      status         |-> "unknown",
      chain_of_trust |-> <<>>,
      records        |-> [dnskey |-> <<>>, ds |-> <<>>, rrsig |-> <<>>],
      tlsa_summary   |-> NoSummary,
      errors         |-> <<>> ]

\* No results dict: the object does not exist (yet).
NoResults == [InitResults(<<>>) EXCEPT !.status = "absent"]

MsgNoDnskey == <<"No", "DNSKEY", "records", "found", "-", "domain", "is", "not", "signed">>
MsgNoDs ==
    <<"Domain", "is", "signed", "but", "has", "no", "DS", "record", "in",
      "parent", "zone", "-", "chain", "of", "trust", "broken">>
MsgNoMatch == <<"DS", "records", "do", "not", "match", "any", "DNSKEY", "records">>
MsgChainError(e) == <<"Chain", "validation", "error:", e>>

(***************************************************************************)
(* DNSSECValidator: helpers                                                *)
(***************************************************************************)
\* _query_dnskey: answer.rrset, or None on any exception of the query.
QueryDnskeyResult(o) ==
    IF o.kind = "answer" THEN SomeRrset(o.rrset) ELSE NoneRrset

\* _query_ds: answer.rrset, or None on any exception of the query.
QueryDsResult(o) ==
    IF o.kind = "answer" THEN SomeRrset(o.rrset) ELSE NoneRrset

\* Mutant of NotRrset: `rrset is None`, which lets an empty answer pass.
NotRrset_IsNone(r) == r.isNone

\* `not rrset`: None or an rrset without records.
NotRrset(r) == r.isNone \/ r.rrs = <<>>

\* Index of the first record whose read raises; 0 when every read succeeds.
FirstUnreadable(rrs) ==
    IF \A i \in 1..Len(rrs) : rrs[i].readable THEN 0
    ELSE CHOOSE i \in 1..Len(rrs) :
            /\ ~rrs[i].readable
            /\ \A j \in 1..(i - 1) : rrs[j].readable

\* The records the storing loop appended before it finished or raised.
ReadPrefix(rrs) ==
    IF FirstUnreadable(rrs) = 0 THEN rrs ELSE SubSeq(rrs, 1, FirstUnreadable(rrs) - 1)

\* One entry of results['records']['dnskey'].
DnskeyEntry(zone, rr) ==
    [ zone |-> ToText(zone), flags |-> rr.flags, protocol |-> rr.protocol,
      algorithm |-> rr.algorithm, key_tag |-> KeyId(rr) ]

\* One entry of results['records']['ds'].
DsEntry(zone, rr) ==
    [ zone |-> ToText(zone), key_tag |-> rr.key_tag, algorithm |-> rr.algorithm,
      digest_type |-> rr.digest_type, digest |-> Hex(rr.digest) ]

DnskeyEntries(zone, rrs) == [i \in 1..Len(rrs) |-> DnskeyEntry(zone, rrs[i])]
DsEntries(zone, rrs)     == [i \in 1..Len(rrs) |-> DsEntry(zone, rrs[i])]

\* Mutant of TagIntersection: only the first DNSKEY is compared.
TagIntersection_FirstKey(ds, dnskey) ==
    {ds[i].key_tag : i \in 1..Len(ds)} \cap {KeyId(dnskey[1])}

\* ds_key_tags.intersection(dnskey_tags)
TagIntersection(ds, dnskey) ==
    {ds[i].key_tag : i \in 1..Len(ds)} \cap {KeyId(dnskey[i]) : i \in 1..Len(dnskey)}

\* A chain link that reports a failure.
ErrorLink(zone, st, msg) == [zone |-> ToText(zone), status |-> st, error |-> msg]

\* Mutant of ValidLink: the link carries the last DNSKEY, not the first.
ValidLink_LastKey(zone, dnskey) ==
    [ zone |-> ToText(zone), status |-> "valid",
      algorithm |-> dnskey[Len(dnskey)].algorithm, key_tag |-> KeyId(dnskey[Len(dnskey)]) ]

\* The chain link of a valid zone: algorithm and key tag of the first DNSKEY.
ValidLink(zone, dnskey) ==
    [ zone |-> ToText(zone), status |-> "valid",
      algorithm |-> dnskey[1].algorithm, key_tag |-> KeyId(dnskey[1]) ]

\* Mutant of StatusAfterChain: the fallback from 'unknown' is missing.
StatusAfterChain_NoDefault(chain_ok, st) == IF chain_ok THEN "valid" ELSE st

\* validate(): the status after _validate_chain_of_trust returned chain_ok.
StatusAfterChain(chain_ok, st) ==
    IF chain_ok THEN "valid"
    ELSE IF st = "unknown" THEN "invalid" ELSE st

(***************************************************************************)
(* TLSAValidator: certificates, hashes, records                            *)
(***************************************************************************)
\* A certificate in DER form is modelled as
\*     <<length of head, length of SPKI>> \o head \o SPKI \o signature
\* so that its SubjectPublicKeyInfo is a part of the certificate bytes that
\* parsing has to find.
CertParses(der) ==
    /\ Len(der) >= 2
    /\ der[2] >= 1
    /\ 2 + der[1] + der[2] <= Len(der)

\* cert.public_key().public_bytes(DER, SubjectPublicKeyInfo)
SpkiOf(der) == SubSeq(der, 3 + der[1], 2 + der[1] + der[2])

\* hashlib.sha256 / hashlib.sha512: stand-ins that are free of collisions on
\* the byte strings of the model and differ from each other and from the
\* identity; their first byte (e2, e5) tells the two apart.
Sha256(data) == <<226>> \o [i \in 1..Len(data) |-> (data[i] + 85) % 256]
Sha512(data) == <<229>> \o [i \in 1..Len(data) |-> (data[i] + 170) % 256]

\* certificate_info = None
NoCertInfo == [present |-> FALSE, der_data |-> <<>>, public_key_info |-> <<>>]

\* The fields of cert_info that the association check reads.
CertInfo(der) ==
    [present |-> TRUE, der_data |-> der, public_key_info |-> SpkiOf(der)]

\* tlsa_name = f"_{port}._{protocol}.{self.domain}"
TlsaName(d, port, protocol) ==
    <<"_" \o ToString(port), ".", "_" \o protocol, ".">> \o d

\* One dict of _query_tlsa_records (the description texts and the ttl are
\* left out).
TlsaRecord(name, rr) ==
    [ name |-> name, usage |-> rr.usage, selector |-> rr.selector, mtype |-> rr.mtype,
      cert_assoc_data |-> Hex(rr.cert), cert_assoc_data_length |-> Len(rr.cert) ]

TlsaRecords(name, rrs) == [i \in 1..Len(rrs) |-> TlsaRecord(name, rrs[i])]

\* Mutant of SelectedData: certificate and public key are swapped.
SelectedData_Swapped(selector, ci) ==
    IF selector = 0 THEN ci.public_key_info ELSE ci.der_data

\* Lines 294-299: the data a supported selector picks.
SelectedData(selector, ci) ==
    IF selector = 0 THEN ci.der_data ELSE ci.public_key_info

\* Lines 307-312: the hex text a supported matching type computes.
ApplyMatchingType(mtype, data) ==
    CASE mtype = 0 -> Hex(data)
      [] mtype = 1 -> Hex(Sha256(data))
      [] mtype = 2 -> Hex(Sha512(data))

\* Mutant of Matches: the comparison minds the case.
Matches_CaseSensitive(computed_data, cert_assoc_data) ==
    computed_data = cert_assoc_data

\* Line 324: computed_data.lower() == tlsa_record["cert_assoc_data"].lower()
Matches(computed_data, cert_assoc_data) ==
    Lower(computed_data) = Lower(cert_assoc_data)

\* No association result: _validate_single_association was not called.
NoAssociation ==
    [ tlsa_record |-> TlsaRecord(<<>>, [usage |-> 0, selector |-> 0, mtype |-> 0, cert |-> <<>>]),
      valid |-> FALSE, reason |-> <<>>, computed_hash |-> <<>>, expected_hash |-> <<>>,
      data_source |-> "unset", data_length |-> 0 ]

\* _validate_single_association (match_details is flattened into
\* data_source and data_length; hash_algorithm is left out)
ValidateSingleAssociation(rec, ci) ==
    LET result == [NoAssociation EXCEPT
                      !.tlsa_record = rec, !.expected_hash = rec.cert_assoc_data]
        source == IF rec.selector = 0 THEN "full_certificate" ELSE "public_key_info"
    IN  IF rec.selector \notin {0, 1}
        THEN [result EXCEPT
                !.reason = <<"Unsupported", "selector", "type:", ToString(rec.selector)>>]
        ELSE IF rec.mtype \notin {0, 1, 2}
        THEN [result EXCEPT
                !.data_source = source,
                !.reason = <<"Unsupported", "matching", "type:", ToString(rec.mtype)>>]
        ELSE LET data == SelectedData(rec.selector, ci)
                 computed_data == ApplyMatchingType(rec.mtype, data)
                 equal == Matches(computed_data, rec.cert_assoc_data)
             IN  [result EXCEPT
                    !.data_source = source,
                    !.computed_hash = computed_data,
                    !.data_length = Len(data),
                    !.valid = equal,
                    !.reason =
                        IF equal
                        THEN <<"Certificate", "association", "matches", "TLSA", "record">>
                        ELSE <<"Certificate", "association", "does", "not", "match",
                               "TLSA", "record">>]

\* The status _validate_dane_associations derives from the two counts.
\* Mutant of DaneStatus: an invalid association decides before a valid one.
DaneStatus_InvalidFirst(valid_count, invalid_count) ==
    IF invalid_count > 0 THEN "invalid"
    ELSE IF valid_count > 0 THEN "valid"
    ELSE "no_associations"

DaneStatus(valid_count, invalid_count) ==
    IF valid_count > 0 THEN "valid"
    ELSE IF invalid_count > 0 THEN "invalid"
    ELSE "no_associations"

\* _validate_dane_associations (success_rate is left out)
ValidateDaneAssociations(recs, ci) ==
    LET all == [i \in 1..Len(recs) |-> ValidateSingleAssociation(recs[i], ci)]
        good == SelectSeq(all, LAMBDA a : a.valid)
        bad  == SelectSeq(all, LAMBDA a : ~a.valid)
    IN  [ valid_associations   |-> good,
          invalid_associations |-> bad,
          status               |-> DaneStatus(Len(good), Len(bad)),
          summary              |-> [ total_records        |-> Len(good) + Len(bad),
                                     valid_associations   |-> Len(good),
                                     invalid_associations |-> Len(bad) ] ]

\* Mutant of TlsaStatusOf: one invalid association makes the status invalid.
TlsaStatusOf_InvalidFirst(validation_results) ==
    IF validation_results.invalid_associations # <<>> THEN "invalid"
    ELSE IF validation_results.valid_associations # <<>> THEN "valid"
    ELSE "no_matches"

\* validate_tlsa: the overall status once the associations are known.
TlsaStatusOf(validation_results) ==
    IF validation_results.valid_associations # <<>> THEN "valid"
    ELSE IF validation_results.invalid_associations # <<>> THEN "invalid"
    ELSE "no_matches"

\* The result dict validate_tlsa starts from.
InitTlsaResult(d, port, protocol) ==
    [ domain           |-> d,
      port             |-> port,
      protocol         |-> protocol,
      tlsa_status      |-> "unknown",
      tlsa_records     |-> <<>>,
      certificate_info |-> NoCertInfo,
      dane_validation  |-> [ valid_associations   |-> <<>>,
                             invalid_associations |-> <<>>,
                             status               |-> "unknown" ],
      errors           |-> <<>>,
      warnings         |-> <<>> ]

\* No TLSA result: validate_tlsa has not been called.
NoTlsaResult == [InitTlsaResult(<<>>, 0, "") EXCEPT !.tlsa_status = "absent"]

(***************************************************************************)
(* TLSAValidator: state                                                    *)
(***************************************************************************)
\* A TLSAValidator is created by the quick check of a DNSSECValidator (it is
\* then named like that validator) or used directly by a caller.
TlsaObjs == Validators \cup {"direct"}

VARIABLES
    tpc,           \* where each validate_tlsa call is
    targs,         \* self.domain and the arguments port, protocol, timeout
    tresult,       \* local result of validate_tlsa
    tlsa_records,  \* local of validate_tlsa
    cert_info,     \* local of validate_tlsa
    netLog,        \* the DNS queries and TLS connections of each call, in order
    assoc          \* a lone _validate_single_association call: input and result

tlsaVars == <<tpc, targs, tresult, tlsa_records, cert_info, netLog>>

VARIABLES
    returns,       \* what validate() and validate_detailed() have returned, in order
    call,          \* the method running on each DNSSECValidator
    fb,            \* the validate_with_fallback call: its locals and what it returned
    util           \* a lone domain_utils call: input and result

callVars == <<returns, call, fb, util>>

vars == <<live, pc, domain, domain_name, results, dnskey_rrset, ds_rrset,
          chain_valid, dnsLog, tpc, targs, tresult, tlsa_records, cert_info,
          netLog, assoc, returns, call, fb, util>>

\* Certificates a server presents: CertA, CertB with the key of CertA and
\* another signature, CertC with another key, and bytes that do not parse.
CertA == <<1, 2, 7, 171, 205, 9>>
CertB == <<1, 2, 7, 171, 205, 8>>
CertC == <<1, 2, 7, 171, 206, 9>>
CertJunk == <<9>>

\* What _get_tls_certificate can meet: a failed connection or handshake, or
\* the DER bytes of the peer certificate.
CertOutcomes ==
    { [kind |-> "raise", exc |-> e, der |-> <<>>] : e \in {"ConnectionRefused", "HandshakeFailure"} }
        \cup { [kind |-> "cert", exc |-> "", der |-> c] : c \in {CertA, CertB, CertC, CertJunk} }

TlsaRdata(usage, selector, mtype, cert) ==
    [usage |-> usage, selector |-> selector, mtype |-> mtype, cert |-> cert]

\* TLSA answers met by the quick check of validate().
QuickTlsaAnswers ==
    LET pin   == TlsaRdata(3, 1, 1, Sha256(SpkiOf(CertA)))
        other == TlsaRdata(3, 0, 1, <<171, 205>>)
    IN  {<<>>, <<pin>>, <<other>>, <<pin, other>>, <<other, pin>>}

\* TLSA rdata met by direct validate_tlsa calls.
DirectTlsaRdata ==
    { TlsaRdata(3, 1, 1, Sha256(SpkiOf(CertA))),
      TlsaRdata(3, 0, 2, Sha512(CertA)),
      TlsaRdata(1, 0, 1, <<171, 205>>),
      TlsaRdata(3, 2, 1, <<171, 205>>),
      TlsaRdata(3, 1, 3, <<171, 205>>) }

TlsaOutcomes(t) ==
    IF t \in Wide \cup {"direct"}
    THEN {Raise(e) : e \in AbsenceExc \cup TransportExc}
            \cup {Answer(rs) : rs \in IF t = "direct"
                                       THEN SeqUpTo(DirectTlsaRdata, MaxRecords)
                                       ELSE QuickTlsaAnswers}
    ELSE {Raise("NXDOMAIN"), Raise("Timeout")}

DirectDomains == { <<"bondit", ".", "dk">> }
Ports         == {443, 25}
Protocols     == {"tcp", "udp"}

(***************************************************************************)
(* TLSAValidator.validate_tlsa                                             *)
(***************************************************************************)
\* validate_tlsa is entered: the result dict is created.
CallValidateTlsa(t, d, port, protocol, timeout) ==
    /\ tpc[t] = "idle"
    /\ tpc' = [tpc EXCEPT ![t] = "query"]
    /\ targs' = [targs EXCEPT ![t] =
                    [domain |-> d, port |-> port, protocol |-> protocol, timeout |-> timeout]]
    /\ tresult' = [tresult EXCEPT ![t] = InitTlsaResult(d, port, protocol)]
    /\ UNCHANGED <<tlsa_records, cert_info, netLog>>

\* Mutant of QueryTlsaRaises: NXDOMAIN and NoAnswer are raised like the rest.
QueryTlsaRaises_Every(o) == o.kind = "raise"

\* _query_tlsa_records raises again every exception but NXDOMAIN and NoAnswer.
QueryTlsaRaises(o) == o.kind = "raise" /\ o.exc \notin {"NXDOMAIN", "NoAnswer"}

\* _query_tlsa_records: the records of the answer, [] for NXDOMAIN and
\* NoAnswer.
QueryTlsaRecords(name, o) ==
    IF o.kind = "answer" THEN TlsaRecords(name, o.rrset) ELSE <<>>

\* validate_tlsa after step 1: the result and whether validate_tlsa goes on
\* to fetch the certificate.
AfterTlsaQuery(res, a, o) ==
    LET name == TlsaName(a.domain, a.port, a.protocol)
        recs == QueryTlsaRecords(name, o)
    IN  IF QueryTlsaRaises(o)
        THEN [ goes_on |-> FALSE, records |-> <<>>,
               result |-> [res EXCEPT
                   !.errors = Append(@, <<"TLSA", "validation", "failed:", o.exc>>),
                   !.tlsa_status = "error"] ]
        ELSE IF recs = <<>>
        THEN [ goes_on |-> FALSE, records |-> <<>>,
               result |-> [res EXCEPT
                   !.tlsa_status = "no_records",
                   !.warnings = Append(@, <<"No", "TLSA", "records", "found", "for">> \o name)] ]
        ELSE [ goes_on |-> TRUE, records |-> recs,
               result |-> [res EXCEPT
                   !.tlsa_records = recs,
                   !.tlsa_status = "records_found"] ]

\* Step 1 of validate_tlsa: the TLSA query.
TlsaQuery(t) ==
    /\ tpc[t] = "query"
    /\ \E o \in TlsaOutcomes(t) :
        LET a   == targs[t]
            out == AfterTlsaQuery(tresult[t], a, o)
        IN  /\ netLog' = [netLog EXCEPT ![t] = Append(@,
                    [op |-> "dns", rdtype |-> "TLSA",
                     name |-> TlsaName(a.domain, a.port, a.protocol),
                     outcome |-> o.kind, exc |-> o.exc, count |-> Len(o.rrset)])]
            /\ tresult' = [tresult EXCEPT ![t] = out.result]
            /\ tlsa_records' = [tlsa_records EXCEPT ![t] = out.records]
            /\ tpc' = [tpc EXCEPT ![t] = IF out.goes_on THEN "connect" ELSE "returned"]
    /\ UNCHANGED <<targs, cert_info>>

\* _get_tls_certificate raises: the connection or handshake failed, or the
\* peer certificate does not parse.
GetCertRaises(c) == c.kind = "raise" \/ ~CertParses(c.der)

\* Mutant of AfterGetCert: the failure falls through to the outer handler.
AfterGetCert_OuterHandler(res, c) ==
    IF GetCertRaises(c)
    THEN [res EXCEPT
            !.errors = Append(@, <<"TLSA", "validation", "failed:",
                                   IF c.kind = "raise" THEN c.exc ELSE "ParseError">>),
            !.tlsa_status = "error"]
    ELSE [res EXCEPT !.certificate_info = CertInfo(c.der)]

\* validate_tlsa after the certificate fetch.
AfterGetCert(res, c) ==
    IF GetCertRaises(c)
    THEN [res EXCEPT
            !.errors = Append(@, <<"TLS", "certificate", "retrieval", "failed:",
                                   IF c.kind = "raise" THEN c.exc ELSE "ParseError">>),
            !.tlsa_status = "cert_unavailable"]
    ELSE [res EXCEPT !.certificate_info = CertInfo(c.der)]

\* Step 2 of validate_tlsa: the TLS connection to the server.
TlsaGetCert(t) ==
    /\ tpc[t] = "connect"
    /\ \E c \in CertOutcomes :
        /\ netLog' = [netLog EXCEPT ![t] = Append(@,
                [op |-> "tls", host |-> targs[t].domain, port |-> targs[t].port,
                 timeout |-> targs[t].timeout,
                 outcome |-> IF GetCertRaises(c) THEN "raise" ELSE "cert"])]
        /\ tresult' = [tresult EXCEPT ![t] = AfterGetCert(@, c)]
        /\ cert_info' = [cert_info EXCEPT ![t] =
                            IF GetCertRaises(c) THEN NoCertInfo ELSE CertInfo(c.der)]
        /\ tpc' = [tpc EXCEPT ![t] = IF GetCertRaises(c) THEN "returned" ELSE "associate"]
    /\ UNCHANGED <<targs, tlsa_records>>

\* validate_tlsa after step 3.
AfterAssociations(res, recs, ci) ==
    LET validation_results == ValidateDaneAssociations(recs, ci)
    IN  [res EXCEPT !.dane_validation = validation_results,
                    !.tlsa_status = TlsaStatusOf(validation_results)]

\* Step 3 of validate_tlsa: the associations and the overall status.
TlsaAssociate(t) ==
    /\ tpc[t] = "associate"
    /\ tresult' = [tresult EXCEPT ![t] = AfterAssociations(@, tlsa_records[t], cert_info[t])]
    /\ tpc' = [tpc EXCEPT ![t] = "returned"]
    /\ UNCHANGED <<targs, tlsa_records, cert_info, netLog>>

\* A caller uses a TLSAValidator directly.
DirectCall ==
    /\ "direct" \in live
    /\ \E d \in DirectDomains, port \in Ports, protocol \in Protocols :
        CallValidateTlsa("direct", d, port, protocol, 10)
    /\ UNCHANGED <<live, assoc>>
    /\ UNCHANGED callVars
    /\ UNCHANGED dnssecVars

TlsaStep(t) ==
    /\ TlsaQuery(t) \/ TlsaGetCert(t) \/ TlsaAssociate(t)
    /\ UNCHANGED <<live, assoc>>
    /\ UNCHANGED callVars
    /\ UNCHANGED dnssecVars

(***************************************************************************)
(* DNSSECValidator.__init__ and validate()                                 *)
(***************************************************************************)
\* __init__: dns.name.from_text(domain) raises for a malformed text, and
\* then no object exists.
\* Mutant of ConstructWith: results is an attribute of the class, shared by
\* every validator.
ConstructWith_SharedResults(v, d) ==
    /\ pc[v] = "new"
    /\ IF FromTextRaises(d)
       THEN /\ pc' = [pc EXCEPT ![v] = "ctor_raised"]
            /\ UNCHANGED <<domain, domain_name, results>>
       ELSE /\ pc' = [pc EXCEPT ![v] = "constructed"]
            /\ domain' = [domain EXCEPT ![v] = d]
            /\ domain_name' = [domain_name EXCEPT ![v] = FromText(d)]
            /\ results' = [w \in Validators |-> InitResults(d)]

\* __init__ with the domain text d.
ConstructWith(v, d) ==
    /\ pc[v] = "new"
    /\ IF FromTextRaises(d)
       THEN /\ pc' = [pc EXCEPT ![v] = "ctor_raised"]
            /\ UNCHANGED <<domain, domain_name, results>>
       ELSE /\ pc' = [pc EXCEPT ![v] = "constructed"]
            /\ domain' = [domain EXCEPT ![v] = d]
            /\ domain_name' = [domain_name EXCEPT ![v] = FromText(d)]
            /\ results' = [results EXCEPT ![v] = InitResults(d)]

\* Domain texts handed to the constructor of each validator.
DomainsOf(v) ==
    IF v \in Wide THEN Domains
    ELSE IF v = "f" THEN FallbackInputs
    ELSE { <<"bondit", ".", "dk">>, <<"www", ".", "bondit", ".", "dk">> }

\* A caller constructs a DNSSECValidator.
Construct(v) ==
    /\ v \in live
    /\ \E d \in DomainsOf(v) : ConstructWith(v, d)
    /\ UNCHANGED <<live, dnskey_rrset, ds_rrset, chain_valid, dnsLog, assoc>>
    /\ UNCHANGED callVars
    /\ UNCHANGED tlsaVars

\* validate() -> _validate_chain_of_trust, step 1: the DNSKEY query.
QueryDnskey(v) ==
    /\ pc[v] = "constructed"
    /\ \E o \in DnskeyOutcomesOf(v) :
        /\ dnskey_rrset' = [dnskey_rrset EXCEPT ![v] = QueryDnskeyResult(o)]
        /\ dnsLog' = [dnsLog EXCEPT ![v] = Append(@,
                [name |-> ToText(domain_name[v]), rdtype |-> "DNSKEY", outcome |-> o])]
    /\ pc' = [pc EXCEPT ![v] = "have_dnskey"]
    /\ UNCHANGED <<live, domain, domain_name, results, ds_rrset, chain_valid, assoc>>
    /\ UNCHANGED callVars
    /\ UNCHANGED tlsaVars

\* Lines 190-195: the domain has no DNSKEY.
NoDnskeyResults(r, zone) ==
    [r EXCEPT !.status = "insecure",
              !.chain_of_trust = Append(@, ErrorLink(zone, "insecure", MsgNoDnskey))]

\* The except branch of _validate_chain_of_trust.
\* Mutant of ChainErrorResults: the handler also sets the status 'error'.
ChainErrorResults_SetsError(r, e) ==
    [r EXCEPT !.status = "error", !.errors = Append(@, MsgChainError(e))]

ChainErrorResults(r, e) == [r EXCEPT !.errors = Append(@, MsgChainError(e))]

\* _validate_chain_of_trust from the DNSKEY answer to the DS query: the
\* results, and whether the function has returned (always False here).
AfterDnskey(r, zone, rrset) ==
    IF NotRrset(rrset)
    THEN [ returns |-> TRUE, results |-> NoDnskeyResults(r, zone) ]
    ELSE IF FirstUnreadable(rrset.rrs) # 0
    THEN [ returns |-> TRUE,
           results |-> ChainErrorResults(
               [r EXCEPT !.records.dnskey = @ \o DnskeyEntries(zone, ReadPrefix(rrset.rrs))],
               "key_id") ]
    ELSE [ returns |-> FALSE,
           results |-> [r EXCEPT !.records.dnskey = @ \o DnskeyEntries(zone, rrset.rrs)] ]

CheckDnskey(v) ==
    /\ pc[v] = "have_dnskey"
    /\ LET out == AfterDnskey(results[v], domain_name[v], dnskey_rrset[v])
       IN  /\ results' = [results EXCEPT ![v] = out.results]
           /\ chain_valid' = [chain_valid EXCEPT ![v] = FALSE]
           /\ pc' = [pc EXCEPT ![v] = IF out.returns THEN "chain_done" ELSE "query_ds"]
    /\ UNCHANGED <<live, domain, domain_name, dnskey_rrset, ds_rrset, dnsLog, assoc>>
    /\ UNCHANGED callVars
    /\ UNCHANGED tlsaVars

\* Step 2: the DS query.
QueryDs(v) ==
    /\ pc[v] = "query_ds"
    /\ \E o \in DsOutcomesOf(v) :
        /\ ds_rrset' = [ds_rrset EXCEPT ![v] = QueryDsResult(o)]
        /\ dnsLog' = [dnsLog EXCEPT ![v] = Append(@,
                [name |-> ToText(domain_name[v]), rdtype |-> "DS", outcome |-> o])]
    /\ pc' = [pc EXCEPT ![v] = "have_ds"]
    /\ UNCHANGED <<live, domain, domain_name, results, dnskey_rrset, chain_valid, assoc>>
    /\ UNCHANGED callVars
    /\ UNCHANGED tlsaVars

\* Mutant of NoDsResults: a missing DS record is reported like a missing
\* DNSKEY.
NoDsResults_Insecure(r, zone) ==
    [r EXCEPT !.status = "insecure",
              !.chain_of_trust = Append(@, ErrorLink(zone, "insecure", MsgNoDnskey))]

\* Lines 213-219: DNSKEY records but no DS record.
NoDsResults(r, zone) ==
    [r EXCEPT !.status = "invalid",
              !.chain_of_trust = Append(@, ErrorLink(zone, "invalid", MsgNoDs))]

\* Lines 237-242: no DS key tag is the key tag of a DNSKEY.
\* Mutant of NoMatchResults: the link of unmatched key tags says 'insecure'.
NoMatchResults_InsecureLink(r, zone) ==
    [r EXCEPT !.status = "invalid",
              !.chain_of_trust = Append(@, ErrorLink(zone, "insecure", MsgNoMatch))]

NoMatchResults(r, zone) ==
    [r EXCEPT !.status = "invalid",
              !.chain_of_trust = Append(@, ErrorLink(zone, "invalid", MsgNoMatch))]

\* _validate_chain_of_trust from the DS answer to its return: the results
\* and the value returned.
AfterDs(r, zone, dnskey, rrset) ==
    IF NotRrset(rrset)
    THEN [ value |-> FALSE, results |-> NoDsResults(r, zone) ]
    ELSE IF FirstUnreadable(rrset.rrs) # 0
    THEN [ value |-> FALSE,
           results |-> ChainErrorResults(
               [r EXCEPT !.records.ds = @ \o DsEntries(zone, ReadPrefix(rrset.rrs))],
               "digest") ]
    ELSE IF TagIntersection(rrset.rrs, dnskey.rrs) = {}
    THEN [ value |-> FALSE,
           results |-> NoMatchResults(
               [r EXCEPT !.records.ds = @ \o DsEntries(zone, rrset.rrs)], zone) ]
    ELSE [ value |-> TRUE,
           results |-> [r EXCEPT
               !.records.ds = @ \o DsEntries(zone, rrset.rrs),
               !.chain_of_trust = Append(@, ValidLink(zone, dnskey.rrs))] ]

CheckDs(v) ==
    /\ pc[v] = "have_ds"
    /\ LET out == AfterDs(results[v], domain_name[v], dnskey_rrset[v], ds_rrset[v])
       IN  /\ results' = [results EXCEPT ![v] = out.results]
           /\ chain_valid' = [chain_valid EXCEPT ![v] = out.value]
    /\ pc' = [pc EXCEPT ![v] = "chain_done"]
    /\ UNCHANGED <<live, domain, domain_name, dnskey_rrset, ds_rrset, dnsLog, assoc>>
    /\ UNCHANGED callVars
    /\ UNCHANGED tlsaVars

\* validate(): the status once _validate_chain_of_trust has returned.  No
\* exception leaves _validate_chain_of_trust, which catches Exception.
SetStatus(v) ==
    /\ pc[v] = "chain_done"
    /\ results' = [results EXCEPT
                      ![v].status = StatusAfterChain(chain_valid[v], results[v].status)]
    /\ pc' = [pc EXCEPT ![v] = "tlsa"]
    /\ UNCHANGED <<live, domain, domain_name, dnskey_rrset, ds_rrset, chain_valid,
                   dnsLog, assoc>>
    /\ UNCHANGED callVars
    /\ UNCHANGED tlsaVars

\* The message _add_tlsa_summary puts next to a status.
SummaryMessage(status) ==
    CASE status = "valid"            -> "DANE/TLSA validation successful"
      [] status = "invalid"          -> "DANE/TLSA validation failed"
      [] status = "no_records"       -> "No TLSA records found - consider implementing DANE"
      [] status = "cert_unavailable" -> "Could not retrieve TLS certificate"
      [] OTHER                       -> "TLSA status unknown"

\* The summary _add_tlsa_summary builds from the result of validate_tlsa.
TlsaSummary(tlsa_result) ==
    [ status        |-> tlsa_result.tlsa_status,
      records_found |-> Len(tlsa_result.tlsa_records),
      dane_status   |-> tlsa_result.dane_validation.status,
      message       |-> SummaryMessage(tlsa_result.tlsa_status) ]

\* The summary _add_tlsa_summary sets when TLSAValidator raises.
FailedSummary ==
    [ status |-> "error", records_found |-> 0, dane_status |-> "error",
      message |-> "TLSA check failed" ]

\* Mutant of WithSummary: a failed TLSA check fails the validation.
WithSummary_Fails(r, summary) ==
    [r EXCEPT !.tlsa_summary = summary,
              !.status = IF summary.status \in {"error", "cert_unavailable"}
                         THEN "error" ELSE @]

\* The results after _add_tlsa_summary stored `summary`.
WithSummary(r, summary) == [r EXCEPT !.tlsa_summary = summary]

\* _add_tlsa_summary starts: TLSAValidator(self.domain).validate_tlsa(timeout=5),
\* or the TLSA validator (a patched one) raises and the except branch sets
\* the minimal summary.
StartTlsaSummary(v) ==
    /\ pc[v] = "tlsa"
    /\ \E raises \in BOOLEAN :
        IF raises
        THEN /\ results' = [results EXCEPT ![v] = WithSummary(@, FailedSummary)]
             /\ pc' = [pc EXCEPT ![v] = "summary_done"]
             /\ UNCHANGED tlsaVars
        ELSE /\ CallValidateTlsa(v, domain[v], 443, "tcp", 5)
             /\ pc' = [pc EXCEPT ![v] = "tlsa_wait"]
             /\ UNCHANGED results
    /\ UNCHANGED <<live, domain, domain_name, dnskey_rrset, ds_rrset, chain_valid,
                   dnsLog, assoc>>
    /\ UNCHANGED callVars

\* _add_tlsa_summary ends: validate_tlsa has returned.
FinishTlsaSummary(v) ==
    /\ pc[v] = "tlsa_wait"
    /\ tpc[v] = "returned"
    /\ results' = [results EXCEPT ![v] = WithSummary(@, TlsaSummary(tresult[v]))]
    /\ pc' = [pc EXCEPT ![v] = "summary_done"]
    /\ UNCHANGED <<live, domain, domain_name, dnskey_rrset, ds_rrset, chain_valid,
                   dnsLog, assoc>>
    /\ UNCHANGED callVars
    /\ UNCHANGED tlsaVars

\* What a caller got: the method, the validator, the value of the returned
\* dict at its return and the resolver answers the call met.
Returned_(v, method, r, log) ==
    [v |-> v, method |-> method, result |-> r, responses |-> log]

\* validate() returns self.results, to the caller or to validate_detailed.
Return(v) ==
    /\ pc[v] = "summary_done"
    /\ IF call[v] = "validate"
       THEN /\ pc' = [pc EXCEPT ![v] = "returned"]
            /\ returns' = Append(returns, Returned_(v, "validate", results[v], dnsLog[v]))
       ELSE /\ pc' = [pc EXCEPT ![v] = "detailed"]
            /\ UNCHANGED returns
    /\ UNCHANGED <<live, domain, domain_name, results, dnskey_rrset, ds_rrset,
                   chain_valid, dnsLog, assoc>>
    /\ UNCHANGED <<call, fb, util>>
    /\ UNCHANGED tlsaVars

\* What the RRSIG query of _query_rrsig can find for a record type.
RrsigAnswers(zone, record_type) ==
    { <<>>,
      << [ type_covered |-> record_type, algorithm |-> 13, key_tag |-> 1296,
           signer |-> ToText(zone) ] >> }

\* validate_detailed after self.validate(): of the detailed analysis only
\* _query_rrsig (for A and for SOA) writes to self.results; the dict
\* returned is {**basic_result, 'detailed_analysis': ...}.
DetailedQueries(v) ==
    /\ pc[v] = "detailed"
    /\ \E a \in RrsigAnswers(domain_name[v], "A"), soa \in RrsigAnswers(domain_name[v], "SOA") :
        /\ results' = [results EXCEPT ![v].records.rrsig = @ \o a \o soa]
        /\ returns' = Append(returns,
                Returned_(v, "validate_detailed", results'[v], dnsLog[v]))
    /\ pc' = [pc EXCEPT ![v] = "returned"]
    /\ UNCHANGED <<live, domain, domain_name, dnskey_rrset, ds_rrset, chain_valid,
                   dnsLog, assoc>>
    /\ UNCHANGED <<call, fb, util>>
    /\ UNCHANGED tlsaVars

\* The caller calls validate() or validate_detailed() on a validator that
\* has returned; _add_tlsa_summary will create a new TLSAValidator.
CallAgain(v) ==
    /\ pc[v] = "returned"
    /\ Cardinality({i \in 1..Len(returns) : returns[i].v = v}) < MaxCalls
    /\ \E m \in {"validate", "validate_detailed"} : call' = [call EXCEPT ![v] = m]
    /\ pc' = [pc EXCEPT ![v] = "constructed"]
    /\ dnskey_rrset' = [dnskey_rrset EXCEPT ![v] = NoneRrset]
    /\ ds_rrset' = [ds_rrset EXCEPT ![v] = NoneRrset]
    /\ chain_valid' = [chain_valid EXCEPT ![v] = FALSE]
    /\ dnsLog' = [dnsLog EXCEPT ![v] = <<>>]
    /\ tpc' = [tpc EXCEPT ![v] = "idle"]
    /\ tresult' = [tresult EXCEPT ![v] = NoTlsaResult]
    /\ tlsa_records' = [tlsa_records EXCEPT ![v] = <<>>]
    /\ cert_info' = [cert_info EXCEPT ![v] = NoCertInfo]
    /\ netLog' = [netLog EXCEPT ![v] = <<>>]
    /\ UNCHANGED <<live, domain, domain_name, results, targs, assoc, returns, fb, util>>

(***************************************************************************)
(* DNSSECValidator.validate_with_fallback                                  *)
(***************************************************************************)
\* The validator on which validate_with_fallback is called, and the
\* validators it creates for the first and for any later attempt.
Outer == "f"
AttemptValidator(i) == IF i = 1 THEN "a1" ELSE "a2"
AttemptValidators == {"a1", "a2"}

\* original_input arguments: None, the empty text and a URL.
OriginalInputs == { NoneText, <<>>, <<"https://", "www", ".", "bondit", ".", "dk", "/">> }

\* Mutant of ContinuesToFallback: an insecure result is retried as well.
ContinuesToFallback_Insecure(status, i, n) ==
    status \in {"invalid", "insecure"} /\ i < n

\* Lines 118-135: the loop goes on to the next candidate (i counts from 1).
ContinuesToFallback(status, i, n) ==
    /\ status # "valid"
    /\ status \notin {"insecure", "error"}
    /\ status = "invalid"
    /\ i < n

\* Lines 152-160 and 175-180: the per-attempt summaries.
AttemptSummaries(validation_attempts) ==
    [ k \in 1..Len(validation_attempts) |->
        [ domain |-> validation_attempts[k].domain,
          type   |-> validation_attempts[k].attempt_type,
          status |-> validation_attempts[k].result.status,
          errors |-> validation_attempts[k].result.errors ] ]

MsgAllFailed == <<"All", "validation", "attempts", "failed">>

\* No fallback_info.
NoFallbackInfo ==
    [ original_input |-> <<>>, requested_domain |-> <<>>, validated_domain |-> <<>>,
      fallback_used |-> FALSE, total_attempts |-> 0, has_attempts |-> FALSE,
      attempts |-> <<>> ]

\* Mutant of FallbackReturn: fallback_used tells that the domain has a
\* fallback candidate.
FallbackReturn_Candidates(st, self_domain) ==
    [ full |-> TRUE, result |-> st.final_result,
      fallback_info |->
        [ original_input   |-> st.original_input,
          requested_domain |-> st.requested_domain,
          validated_domain |-> st.final_result.domain,
          fallback_used    |-> Len(st.domains_to_try) > 1,
          total_attempts   |-> Len(st.validation_attempts),
          has_attempts     |-> Len(st.validation_attempts) > 1,
          attempts         |-> IF Len(st.validation_attempts) > 1
                               THEN AttemptSummaries(st.validation_attempts) ELSE <<>> ] ]

\* Lines 137-182: the dict validate_with_fallback returns.  full tells
\* whether it has the keys of a validation result (a copy of final_result)
\* or is the error dict of lines 164-182; has_attempts whether
\* fallback_info has the key 'attempts'.
FallbackReturn(st, self_domain) ==
    IF st.final_result # NoResults
    THEN LET several == st.fallback_used \/ Len(st.validation_attempts) > 1
         IN  [ full |-> TRUE, result |-> st.final_result,
               fallback_info |->
                 [ original_input   |-> st.original_input,
                   requested_domain |-> st.requested_domain,
                   validated_domain |-> st.final_result.domain,
                   fallback_used    |-> st.fallback_used,
                   total_attempts   |-> Len(st.validation_attempts),
                   has_attempts     |-> several,
                   attempts         |-> IF several
                                        THEN AttemptSummaries(st.validation_attempts)
                                        ELSE <<>> ] ]
    ELSE [ full |-> FALSE,
           result |-> [NoResults EXCEPT !.domain = self_domain, !.status = "error",
                                        !.errors = <<MsgAllFailed>>],
           fallback_info |->
             [ original_input   |-> st.original_input,
               requested_domain |-> st.requested_domain,
               validated_domain |-> self_domain,
               fallback_used    |-> TRUE,
               total_attempts   |-> Len(st.validation_attempts),
               has_attempts     |-> TRUE,
               attempts         |-> AttemptSummaries(st.validation_attempts) ] ]

\* validate_with_fallback is not running.
NoFb ==
    [ pc |-> "idle", original_input |-> <<>>, requested_domain |-> <<>>,
      domains_to_try |-> <<>>, i |-> 0, validation_attempts |-> <<>>,
      final_result |-> NoResults, fallback_used |-> FALSE,
      ret |-> [full |-> FALSE, result |-> NoResults, fallback_info |-> NoFallbackInfo] ]

\* Lines 89-97: validate_with_fallback is entered.
CallValidateWithFallback ==
    /\ Outer \in live
    /\ pc[Outer] = "constructed"
    /\ fb.pc = "idle"
    /\ \E original_input \in OriginalInputs :
        LET domains_to_try == GetFallbackDomains(domain[Outer])
        IN  fb' = [NoFb EXCEPT
                !.pc = IF domains_to_try = <<>> THEN "after_loop" ELSE "loop",
                !.original_input = IF original_input \in {NoneText, <<>>}
                                   THEN domain[Outer] ELSE original_input,
                !.requested_domain = domain[Outer],
                !.domains_to_try = domains_to_try,
                !.i = 1]
    /\ UNCHANGED <<live, assoc, returns, call, util>>
    /\ UNCHANGED dnssecVars
    /\ UNCHANGED tlsaVars

\* Line 106: validator = DNSSECValidator(domain); an exception of the
\* constructor would leave validate_with_fallback.
StartAttempt ==
    /\ fb.pc = "loop"
    /\ LET d == fb.domains_to_try[fb.i]
       IN  /\ ConstructWith(AttemptValidator(fb.i), d)
           /\ fb' = [fb EXCEPT !.pc = IF FromTextRaises(d) THEN "raised" ELSE "attempt"]
    /\ UNCHANGED <<live, dnskey_rrset, ds_rrset, chain_valid, dnsLog, assoc>>
    /\ UNCHANGED <<returns, call, util>>
    /\ UNCHANGED tlsaVars

\* Lines 107-135: validator.validate() has returned; the attempt is stored
\* and the loop goes on or ends.
FinishAttempt ==
    /\ fb.pc = "attempt"
    /\ pc[AttemptValidator(fb.i)] = "returned"
    /\ LET validation_result == results[AttemptValidator(fb.i)]
           is_fallback == fb.i > 1
           attempt_info == [ domain |-> fb.domains_to_try[fb.i],
                             attempt_type |-> IF is_fallback THEN "fallback" ELSE "primary",
                             result |-> validation_result ]
           goes_on == ContinuesToFallback(validation_result.status, fb.i,
                                          Len(fb.domains_to_try))
       IN  fb' = [fb EXCEPT
                !.validation_attempts = Append(@, attempt_info),
                !.final_result = IF goes_on THEN @ ELSE validation_result,
                !.fallback_used = IF goes_on THEN @ ELSE is_fallback,
                !.i = IF goes_on THEN @ + 1 ELSE @,
                !.pc = IF goes_on THEN "loop" ELSE "after_loop"]
    /\ UNCHANGED <<live, assoc, returns, call, util>>
    /\ UNCHANGED dnssecVars
    /\ UNCHANGED tlsaVars

\* Lines 137-182: validate_with_fallback returns.
ReturnFallback ==
    /\ fb.pc = "after_loop"
    /\ fb' = [fb EXCEPT !.pc = "returned", !.ret = FallbackReturn(fb, domain[Outer])]
    /\ UNCHANGED <<live, assoc, returns, call, util>>
    /\ UNCHANGED dnssecVars
    /\ UNCHANGED tlsaVars

(***************************************************************************)
(* Lone calls of the domain_utils functions                                *)
(***************************************************************************)
\* Texts handed to get_fallback_domains: those of FallbackInputs, and names
\* with a capital piece, a TLD with a digit, a TLD of one letter, a line
\* feed at the end, a hyphen label, labels with digits, and a bare
\* compound TLD.
UtilInputs ==
    FallbackInputs \cup
    { <<"WWW", ".", "bondit", ".", "dk">>,
      <<"www", ".", "bondit", ".", "v1">>,
      <<"a", ".", "a", ".", "a">>,
      <<"www", ".", "bondit", ".", "dk", "<LF>">>,
      <<"www", ".", "-", ".", "dk">>,
      <<"www", ".", "bondit", "-", "v1", ".", "dk">>,
      <<"1", ".", "v1", ".", "com">>,
      <<"co", ".", "uk">>,
      <<"bondit">> }

NoUtil == [call |-> "none", phase |-> "idle", arg |-> <<>>, out |-> <<>>]

\* get_fallback_domains(domain) is called on its own.
ApplyGetFallbackDomains ==
    /\ util.call = "get_fallback_domains"
    /\ util.phase = "input"
    /\ util' = [util EXCEPT !.phase = "done", !.out = GetFallbackDomains(util.arg)]
    /\ UNCHANGED <<live, assoc, returns, call, fb>>
    /\ UNCHANGED dnssecVars
    /\ UNCHANGED tlsaVars

\* What a user types: an optional scheme, a host, an optional port and an
\* optional path, query or fragment, with or without white space around it.
InputSchemes ==
    { <<>>, <<"https">> \o SchemeSep, <<"http">> \o SchemeSep, <<"ftp">> \o SchemeSep,
      <<"ssh">> \o SchemeSep, SchemeSep }
InputHosts ==
    { <<>>,
      <<"bondit", ".", "dk">>,
      <<"WWW", ".", "bondit", ".", "COM">>,
      <<"www", " ", "bondit", ".", "dk">>,
      <<"bondit", ".", ".", "dk">>,
      <<"bondit">>,
      <<"bondit", ".", "v1">>,
      <<"bondit", ".", "dk", ".">>,
      <<"user", "@", "bondit", ".", "dk">>,
      <<"[", "bondit", ".", "dk">> }
InputPorts == { <<>>, <<":", "8080">> }
InputTails ==
    { <<>>,
      <<"/", "path">>,
      <<"?", "q", "=", "1">>,
      <<"#", "frag">>,
      <<"/", "path", "?", "q", "=", "1">>,
      <<"/", "r", "?", "u", "=", "http">> \o SchemeSep \o <<"api", ".", "bondit", ".", "dk">> }
InputPads == { << <<>>, <<>> >>, << <<" ">>, <<" ">> >>, << <<"<TAB>">>, <<"<LF>">> >> }
UserInputs ==
    { pad[1] \o scheme \o host \o port \o tail \o pad[2] :
        pad \in InputPads, scheme \in InputSchemes, host \in InputHosts,
        port \in InputPorts, tail \in InputTails }

\* Texts handed to is_valid_domain_format: those of UtilInputs, and names of
\* 194 and of 258 characters, names with hyphens, and names of one letter.
FormatInputs ==
    UtilInputs \cup
    { <<"x63", ".", "x63", ".", "x63", ".", "dk">>,
      <<"x63", ".", "x63", ".", "x63", ".", "x63", ".", "dk">>,
      <<"bondit", "-", "-", "a", ".", "dk">>,
      <<"-", "bondit", ".", "dk">>,
      <<"bondit", "-", ".", "dk">>,
      <<"bondit", ".", "d", "-", "k">>,
      <<"bondit", ".", "a">>,
      <<"1", ".", "dk">>,
      <<"bondit", ".", "dk", ".">>,
      <<".", "bondit", ".", "dk">>,
      <<"bondit", ".", ".", "dk">>,
      <<"bondit", ".", "dk", " ">>,
      <<"bondit", ".", "dk", "<LF>", "<LF>">>,
      <<"bondit", "<LF>", ".", "dk">> }

\* extract_domain_from_input(user_input) is called on its own.
ApplyExtractDomainFromInput ==
    /\ util.call = "extract_domain_from_input"
    /\ util.phase = "input"
    /\ util' = [util EXCEPT !.phase = "done", !.out = ExtractDomainFromInput(util.arg)]
    /\ UNCHANGED <<live, assoc, returns, call, fb>>
    /\ UNCHANGED dnssecVars
    /\ UNCHANGED tlsaVars

\* is_valid_domain_format(domain) is called on its own.
ApplyIsValidDomainFormat ==
    /\ util.call = "is_valid_domain_format"
    /\ util.phase = "input"
    /\ util' = [util EXCEPT !.phase = "done", !.out = IsValidDomainFormat(util.arg)]
    /\ UNCHANGED <<live, assoc, returns, call, fb>>
    /\ UNCHANGED dnssecVars
    /\ UNCHANGED tlsaVars

(***************************************************************************)
(* TLSAValidator._assess_security                                          *)
(***************************************************************************)
\* The points of the TLSA records for their matching types: 10 for a
\* SHA-256 or SHA-512 record, 5 for a record that matches the full data.
RECURSIVE HashPoints(_)
HashPoints(recs) ==
    IF recs = <<>> THEN 0
    ELSE (IF Head(recs).mtype \in {1, 2} THEN 10
          ELSE IF Head(recs).mtype = 0 THEN 5 ELSE 0) + HashPoints(Tail(recs))

\* The points of the TLSA records for their usage: 15 for a DANE-EE record.
RECURSIVE UsagePoints(_)
UsagePoints(recs) ==
    IF recs = <<>> THEN 0
    ELSE (IF Head(recs).usage = 3 THEN 15 ELSE 0) + UsagePoints(Tail(recs))

\* The points of the certificate: 20 when it is valid now, then 5 more with
\* over 30 days left and 20 less with no whole day left.
CertPoints(result) ==
    IF ~result.has_cert THEN 0
    ELSE IF result.validity.currently_valid
         THEN 20 + (IF result.validity.days_remaining > 30 THEN 5
                    ELSE IF result.validity.days_remaining > 0 THEN 0
                    ELSE -20)
         ELSE 0

\* min(100, max(0, score))
Clamp(score) == IF score < 0 THEN 0 ELSE IF score > 100 THEN 100 ELSE score

\* _assess_security: the overall_score it stores.
AssessSecurity(result) ==
    LET score == (IF result.tlsa_status = "valid" THEN 40 ELSE 0)
                 + HashPoints(result.tlsa_records)
                 + UsagePoints(result.tlsa_records)
                 + CertPoints(result)
    IN  [overall_score |-> Clamp(score)]

\* The TLSA record dicts of a result, as far as the assessment reads them.
ScoreRecords == { [mtype |-> m, usage |-> u] : m \in 0..2, u \in {0, 3} }

\* What _analyze_certificate stores of the validity period: a certificate
\* not yet valid, one with 45 days, 10 days or less than a day left, and one
\* that expired 5 days ago.
Validities ==
    { [currently_valid |-> FALSE, days_remaining |-> 400],
      [currently_valid |-> TRUE, days_remaining |-> 45],
      [currently_valid |-> TRUE, days_remaining |-> 10],
      [currently_valid |-> TRUE, days_remaining |-> 0],
      [currently_valid |-> FALSE, days_remaining |-> -5] }

\* The results _assess_security is called with.
ScoreInputs ==
    { [tlsa_status |-> st, tlsa_records |-> recs, has_cert |-> FALSE,
       validity |-> [currently_valid |-> FALSE, days_remaining |-> 0]] :
         st \in {"no_records", "cert_unavailable", "error"},
         recs \in SeqUpTo(ScoreRecords, MaxRecords) }
    \cup
    { [tlsa_status |-> st, tlsa_records |-> recs, has_cert |-> TRUE, validity |-> val] :
         st \in {"valid", "invalid", "no_matches"},
         recs \in SeqUpTo(ScoreRecords, MaxRecords) \ {<<>>},
         val \in Validities }

\* _assess_security(result) is called on its own.
ApplyAssessSecurity ==
    /\ util.call = "_assess_security"
    /\ util.phase = "input"
    /\ util' = [util EXCEPT !.phase = "done", !.out = AssessSecurity(util.arg)]
    /\ UNCHANGED <<live, assoc, returns, call, fb>>
    /\ UNCHANGED dnssecVars
    /\ UNCHANGED tlsaVars

(***************************************************************************)
(* db_init.initialize_database                                             *)
(***************************************************************************)
\* The environment initialize_database reads: INFLUX_DB_RECREATE,
\* INFLUX_DB_TRUNCATE, INFLUX_DB_VERSION and INFLUX_DB_INIT_WAIT.
DbEnvironments ==
    [ recreate : BOOLEAN, truncate : BOOLEAN, version : {"None", "v2"}, init_wait : {0, 5} ]

\* What influx_logger.client.health() can do.
HealthOutcomes == {"pass", "fail", "raise"}

\* A run of initialize_database that has read env and not yet done anything:
\* its locals, the calls it has made on influx_logger, what the connection
\* turned out to be, and what it returned.
DbRun(env) ==
    [ call |-> "initialize_database", phase |-> "input", arg |-> env,
      recreate_db |-> env.recreate, truncate_db |-> env.truncate, success |-> TRUE,
      slept |-> 0, client |-> FALSE, health |-> "none", calls |-> <<>>, out |-> "none" ]

\* Lines 31-54: the options are read, truncate is dropped when both are set,
\* and the run sleeps init_wait seconds.
DbReadEnv ==
    /\ util.call = "initialize_database"
    /\ util.phase = "input"
    /\ util' = [util EXCEPT
                  !.phase = "connect",
                  !.truncate_db = IF util.recreate_db /\ util.truncate_db
                                  THEN FALSE ELSE util.truncate_db,
                  !.slept = IF util.arg.init_wait > 0 THEN util.arg.init_wait ELSE 0]
    /\ UNCHANGED <<live, assoc, returns, call, fb>>
    /\ UNCHANGED dnssecVars
    /\ UNCHANGED tlsaVars

\* Mutant of DbTestConnection: a failed health check does not end the run.
DbTestConnection_IgnoresHealth ==
    /\ util.call = "initialize_database"
    /\ util.phase = "connect"
    /\ \/ util' = [util EXCEPT !.phase = "done", !.out = FALSE]
       \/ \E h \in HealthOutcomes :
            util' = [util EXCEPT
                       !.client = TRUE, !.health = h,
                       !.calls = Append(util.calls, [op |-> "health", result |-> h]),
                       !.phase = IF h = "raise" THEN "done" ELSE "info",
                       !.out = IF h = "raise" THEN FALSE ELSE util.out]
    /\ UNCHANGED <<live, assoc, returns, call, fb>>
    /\ UNCHANGED dnssecVars
    /\ UNCHANGED tlsaVars

\* Lines 59-68: without a client the run returns False; with one,
\* client.health() is called, and the run returns False unless it passes
\* (an exception of health() is caught at line 140).
DbTestConnection ==
    /\ util.call = "initialize_database"
    /\ util.phase = "connect"
    /\ \/ util' = [util EXCEPT !.phase = "done", !.out = FALSE]
       \/ \E h \in HealthOutcomes :
            util' = [util EXCEPT
                       !.client = TRUE, !.health = h,
                       !.calls = Append(util.calls, [op |-> "health", result |-> h]),
                       !.phase = IF h = "pass" THEN "info" ELSE "done",
                       !.out = IF h = "pass" THEN util.out ELSE FALSE]
    /\ UNCHANGED <<live, assoc, returns, call, fb>>
    /\ UNCHANGED dnssecVars
    /\ UNCHANGED tlsaVars

\* Lines 72-82: the database information is fetched and printed.
DbFirstInfo ==
    /\ util.call = "initialize_database"
    /\ util.phase = "info"
    /\ util' = [util EXCEPT
                  !.phase = "operate",
                  !.calls = Append(util.calls, [op |-> "get_database_info", result |-> "dict"])]
    /\ UNCHANGED <<live, assoc, returns, call, fb>>
    /\ UNCHANGED dnssecVars
    /\ UNCHANGED tlsaVars

\* Lines 85-114: recreate_database(version) is called when recreate is set,
\* otherwise truncate_database() when truncate is set, unless the user
\* interrupts the countdown; either reports success or failure.
DbOperate ==
    /\ util.call = "initialize_database"
    /\ util.phase = "operate"
    /\ IF util.recreate_db
       THEN \E ok \in BOOLEAN :
              util' = [util EXCEPT
                         !.phase = "final",
                         !.success = ok,
                         !.calls = Append(util.calls,
                                     [op |-> "recreate_database",
                                      version |-> util.arg.version, result |-> ok])]
       ELSE IF util.truncate_db
       THEN \/ util' = [util EXCEPT !.phase = "done", !.out = FALSE]
            \/ \E ok \in BOOLEAN :
                 util' = [util EXCEPT
                            !.phase = "final",
                            !.success = ok,
                            !.calls = Append(util.calls,
                                        [op |-> "truncate_database", result |-> ok])]
       ELSE util' = [util EXCEPT !.phase = "final"]
    /\ UNCHANGED <<live, assoc, returns, call, fb>>
    /\ UNCHANGED dnssecVars
    /\ UNCHANGED tlsaVars

\* Lines 117-147: after a success the database information is printed again
\* and True is returned; after a failure False is returned.
DbFinish ==
    /\ util.call = "initialize_database"
    /\ util.phase = "final"
    /\ util' = [util EXCEPT
                  !.phase = "done",
                  !.out = util.success,
                  !.calls = IF util.success
                            THEN Append(util.calls,
                                        [op |-> "get_database_info", result |-> "dict"])
                            ELSE util.calls]
    /\ UNCHANGED <<live, assoc, returns, call, fb>>
    /\ UNCHANGED dnssecVars
    /\ UNCHANGED tlsaVars

(***************************************************************************)
(* models.InfluxDBLogger.get_hourly_requests                               *)
(***************************************************************************)
\* datetime.isoformat(): the date, "T" and the clock time.
Isoformat(t) == [date |-> t.day, clock |-> <<t.hour>>]

\* a < b for two time stamp texts, as strings compare.
TsLess(a, b) ==
    \/ a.date < b.date
    \/ /\ a.date = b.date
       /\ \/ a.clock = <<>> /\ b.clock # <<>>
          \/ a.clock # <<>> /\ b.clock # <<>> /\ a.clock[1] < b.clock[1]

\* One pair is put in its place in a sorted list, after the pairs that do
\* not come after it.
RECURSIVE InsertSorted(_, _)
InsertSorted(pair, sorted) ==
    IF sorted = <<>> THEN <<pair>>
    ELSE IF TsLess(pair[1], Head(sorted)[1]) THEN <<pair>> \o sorted
    ELSE <<Head(sorted)>> \o InsertSorted(pair, Tail(sorted))

\* sorted(series, key=lambda x: x[0])
RECURSIVE SortedByTs(_)
SortedByTs(series) ==
    IF series = <<>> THEN <<>>
    ELSE InsertSorted(series[Len(series)], SortedByTs(SubSeq(series, 1, Len(series) - 1)))

\* The (ts, value) pairs of the records that have a _time.
RECURSIVE Series(_)
Series(rows) ==
    IF rows = <<>> THEN <<>>
    ELSE (IF Head(rows).has_time
          THEN << <<Isoformat(Head(rows).time), Head(rows).value>> >>
          ELSE <<>>) \o Series(Tail(rows))

\* get_hourly_requests: what it returns for the records the query gives.
GetHourlyRequests(rows, window_every) == SortedByTs(Series(rows))

\* The records a query returns: a window start (or no _time) and a count.
QueryRecords ==
    { [has_time |-> TRUE, time |-> [day |-> d, hour |-> h], value |-> n] :
        d \in 1..2, h \in {0, 10}, n \in 1..2 }
    \cup { [has_time |-> FALSE, time |-> [day |-> 0, hour |-> 0], value |-> n] : n \in 1..2 }

\* The windows of aggregateWindow and the hours of each.
Windows == {"1h", "1d"}

\* The records of a query with a window: a daily window starts at midnight.
HourlyInputs ==
    { a \in [results : SeqUpTo(QueryRecords, MaxRecords), window_every : Windows] :
        a.window_every = "1d" =>
            \A i \in 1..Len(a.results) : a.results[i].time.hour = 0 }

\* get_hourly_requests(window_every=w) is called on its own.
ApplyGetHourlyRequests ==
    /\ util.call = "get_hourly_requests"
    /\ util.phase = "input"
    /\ util' = [util EXCEPT
                  !.phase = "done",
                  !.out = GetHourlyRequests(util.arg.results, util.arg.window_every)]
    /\ UNCHANGED <<live, assoc, returns, call, fb>>
    /\ UNCHANGED dnssecVars
    /\ UNCHANGED tlsaVars

(***************************************************************************)
(* DNSSECValidator._analyze_signatures                                     *)
(***************************************************************************)
\* datetime.fromtimestamp(seconds, tz=timezone.utc).isoformat()
IsoDate(seconds) == <<"utc", seconds>>

\* The sig_info of one RRSIG at current_time.
SigInfo(rrsig, current_time) ==
    [ type_covered |-> rrsig.type_covered,
      inception |-> rrsig.inception,
      expiration |-> rrsig.expiration,
      expiration_date |-> IsoDate(rrsig.expiration),
      valid |-> rrsig.inception <= current_time /\ current_time <= rrsig.expiration,
      time_until_expiration |-> rrsig.expiration - current_time ]

\* The warnings one sig_info adds: 'expires soon' under 7 days, and
\* otherwise 'has expired' under 0 seconds.
SigWarnings(sig_info) ==
    IF sig_info.time_until_expiration < 86400 * 7
    THEN << [kind |-> "expires soon", type_covered |-> sig_info.type_covered,
             expiration_date |-> sig_info.expiration_date] >>
    ELSE IF sig_info.time_until_expiration < 0
    THEN << [kind |-> "has expired", type_covered |-> sig_info.type_covered,
             expiration_date |-> sig_info.expiration_date] >>
    ELSE <<>>

RECURSIVE AllWarnings(_)
AllWarnings(sigs) ==
    IF sigs = <<>> THEN <<>> ELSE SigWarnings(Head(sigs)) \o AllWarnings(Tail(sigs))

\* _analyze_signatures: the signature_validity it stores.
AnalyzeSignatures(rrsigs, current_time) ==
    LET sigs == [i \in 1..Len(rrsigs) |-> SigInfo(rrsigs[i], current_time)]
    IN  [ current_timestamp |-> current_time,
          signatures |-> sigs,
          warnings |-> AllWarnings(sigs) ]

\* The clock readings of a run.
CurrentTimes == {1700000000}

\* The RRSIG dicts collected for a time now: signed a while ago or only in an
\* hour, and expired an hour ago, expiring in an hour, in 7 days less a
\* second, in exactly 7 days, or in 30 days.
RrsigsAt(now) ==
    { [type_covered |-> t, inception |-> now + i, expiration |-> now + x] :
        t \in {"A", "SOA"},
        i \in {-864000, 3600},
        x \in {-3600, 3600, 86400 * 7 - 1, 86400 * 7, 86400 * 30} }

\* _analyze_signatures(result) is called on its own.
ApplyAnalyzeSignatures ==
    /\ util.call = "_analyze_signatures"
    /\ util.phase = "input"
    /\ util' = [util EXCEPT
                  !.phase = "done",
                  !.out = AnalyzeSignatures(util.arg.rrsig, util.arg.current_time)]
    /\ UNCHANGED <<live, assoc, returns, call, fb>>
    /\ UNCHANGED dnssecVars
    /\ UNCHANGED tlsaVars

(***************************************************************************)
(* Lone calls of the association functions                                 *)
(***************************************************************************)
\* str.upper() on a hex string.
UpperTok(c) ==
    CASE c = "a" -> "A" [] c = "b" -> "B" [] c = "c" -> "C"
      [] c = "d" -> "D" [] c = "e" -> "E" [] c = "f" -> "F"
      [] OTHER -> c
Upper(s) == [i \in 1..Len(s) |-> UpperTok(s[i])]

\* cert_assoc_data of the TLSA record dicts handed to a lone
\* _validate_single_association call: what each selector and matching type
\* computes for CertA, the SHA-256 of its public key in capitals, and a text
\* that matches nothing.
AssocData ==
    { Hex(CertA), Hex(SpkiOf(CertA)),
      Hex(Sha256(CertA)), Hex(Sha256(SpkiOf(CertA))), Upper(Hex(Sha256(SpkiOf(CertA)))),
      Hex(Sha512(CertA)), Hex(Sha512(SpkiOf(CertA))),
      <<"a", "b", "c", "d">> }

AssocRecords ==
    { [ name |-> <<"_443", ".", "_tcp", ".", "test", ".", "dk">>, usage |-> 3,
        selector |-> sel, mtype |-> mt, cert_assoc_data |-> data,
        cert_assoc_data_length |-> Len(data) \div 2 ] :
        sel \in {0, 1, 2}, mt \in {0, 1, 2, 3}, data \in AssocData }

\* Record lists handed to a lone _validate_dane_associations call.
DaneInputs ==
    { TlsaRecords(<<"_443", ".", "_tcp", ".", "test", ".", "dk">>, rrs) :
        rrs \in SeqUpTo(DirectTlsaRdata, MaxRecords) }

\* Values a changed certificate byte takes.
ChangedBytes == {0, 1, 8, 206}

\* No dict of _validate_dane_associations.
NoDane ==
    [ valid_associations |-> <<>>, invalid_associations |-> <<>>, status |-> "unknown",
      summary |-> [total_records |-> 0, valid_associations |-> 0, invalid_associations |-> 0] ]

NoAssoc ==
    [ call |-> "none", phase |-> "idle", records |-> <<>>, der |-> <<>>, original |-> <<>>,
      cert_info |-> NoCertInfo, single |-> NoAssociation, dane |-> NoDane ]

\* The lone calls a caller (a test) makes: one TLSA record against the
\* certificate info of CertA, CertB or CertC, or a list of records.
AssocInputs ==
    { [NoAssoc EXCEPT !.call = "single", !.phase = "input", !.records = <<rec>>,
                      !.der = c, !.original = c, !.cert_info = CertInfo(c)] :
        rec \in AssocRecords, c \in {CertA, CertB, CertC} }
    \cup
    { [NoAssoc EXCEPT !.call = "dane", !.phase = "input", !.records = recs,
                      !.der = CertA, !.original = CertA, !.cert_info = CertInfo(CertA)] :
        recs \in DaneInputs }

\* _validate_single_association(tlsa_record, cert_info) is called.
ApplyAssociation ==
    /\ assoc.call = "single"
    /\ assoc.phase = "input"
    /\ assoc' = [assoc EXCEPT
                    !.phase = "done",
                    !.single = ValidateSingleAssociation(assoc.records[1], assoc.cert_info)]
    /\ UNCHANGED live
    /\ UNCHANGED callVars
    /\ UNCHANGED dnssecVars
    /\ UNCHANGED tlsaVars

\* _validate_dane_associations(tlsa_records, cert_info) is called.
ApplyDane ==
    /\ assoc.call = "dane"
    /\ assoc.phase = "input"
    /\ assoc' = [assoc EXCEPT
                    !.phase = "done",
                    !.dane = ValidateDaneAssociations(assoc.records, assoc.cert_info)]
    /\ UNCHANGED live
    /\ UNCHANGED callVars
    /\ UNCHANGED dnssecVars
    /\ UNCHANGED tlsaVars

\* The caller changes one byte of the certificate (it still parses) and
\* hands the certificate info of the changed certificate to the next call.
MutateCertificate ==
    /\ assoc.call = "single"
    /\ assoc.phase = "done"
    /\ assoc.der = assoc.original
    /\ \E i \in 1..Len(assoc.der), b \in ChangedBytes :
        LET changed == [assoc.der EXCEPT ![i] = b]
        IN  /\ b # assoc.der[i]
            /\ CertParses(changed)
            /\ assoc' = [assoc EXCEPT !.phase = "input", !.der = changed,
                                      !.cert_info = CertInfo(changed),
                                      !.single = NoAssociation]
    /\ UNCHANGED live
    /\ UNCHANGED callVars
    /\ UNCHANGED dnssecVars
    /\ UNCHANGED tlsaVars

(***************************************************************************)
(* Specifications                                                          *)
(***************************************************************************)
InitObjects ==
    /\ pc = [v \in Validators |-> "new"]
    /\ domain = [v \in Validators |-> <<>>]
    /\ domain_name = [v \in Validators |-> <<>>]
    /\ results = [v \in Validators |-> NoResults]
    /\ dnskey_rrset = [v \in Validators |-> NoneRrset]
    /\ ds_rrset = [v \in Validators |-> NoneRrset]
    /\ chain_valid = [v \in Validators |-> FALSE]
    /\ dnsLog = [v \in Validators |-> <<>>]
    /\ tpc = [t \in TlsaObjs |-> "idle"]
    /\ targs = [t \in TlsaObjs |->
                  [domain |-> <<>>, port |-> 0, protocol |-> "", timeout |-> 0]]
    /\ tresult = [t \in TlsaObjs |-> NoTlsaResult]
    /\ tlsa_records = [t \in TlsaObjs |-> <<>>]
    /\ cert_info = [t \in TlsaObjs |-> NoCertInfo]
    /\ netLog = [t \in TlsaObjs |-> <<>>]
    /\ returns = <<>>
    /\ fb = NoFb

\* A DNSSECValidator is constructed and validate() is called on it once, as
\* the request handlers do.
Init ==
    /\ live = Wide
    /\ assoc = NoAssoc
    /\ call = [v \in Validators |-> "validate"]
    /\ util = NoUtil
    /\ InitObjects

Next ==
    \E v \in Validators :
        \/ Construct(v)
        \/ QueryDnskey(v)
        \/ CheckDnskey(v)
        \/ QueryDs(v)
        \/ CheckDs(v)
        \/ SetStatus(v)
        \/ StartTlsaSummary(v)
        \/ TlsaStep(v)
        \/ FinishTlsaSummary(v)
        \/ Return(v)

Spec == Init /\ [][Next]_vars

\* The TLSAValidator is used on its own: validate_tlsa is called, or its
\* two association functions are.
InitTlsa ==
    /\ InitObjects
    /\ call = [v \in Validators |-> "validate"]
    /\ util = NoUtil
    /\ \/ live = {"direct"} /\ assoc = NoAssoc
       \/ live = {"lone"} /\ assoc \in AssocInputs

NextTlsa ==
    \/ DirectCall
    \/ TlsaStep("direct")
    \/ ApplyAssociation
    \/ ApplyDane
    \/ MutateCertificate

SpecTlsa == InitTlsa /\ [][NextTlsa]_vars

\* The steps of validate() on a constructed validator.
ValidateSteps(v) ==
    \/ QueryDnskey(v)
    \/ CheckDnskey(v)
    \/ QueryDs(v)
    \/ CheckDs(v)
    \/ SetStatus(v)
    \/ StartTlsaSummary(v)
    \/ TlsaStep(v)
    \/ FinishTlsaSummary(v)
    \/ Return(v)

\* One validator is used more than once: validate() or validate_detailed()
\* is called on it, and called again after it has returned.
InitRerun ==
    /\ InitObjects
    /\ live = {"r1"}
    /\ assoc = NoAssoc
    /\ call \in { [[v \in Validators |-> "validate"] EXCEPT !["r1"] = m] :
                    m \in {"validate", "validate_detailed"} }
    /\ util = NoUtil

NextRerun ==
    \/ Construct("r1")
    \/ ValidateSteps("r1")
    \/ DetailedQueries("r1")
    \/ CallAgain("r1")

SpecRerun == InitRerun /\ [][NextRerun]_vars

\* Two validators are constructed and validate() runs on both, their steps
\* interleaved in every way.
Pair == {"p1", "p2"}

InitPair ==
    /\ InitObjects
    /\ live = Pair
    /\ assoc = NoAssoc
    /\ call = [v \in Validators |-> "validate"]
    /\ util = NoUtil

NextPair == \E v \in Pair : Construct(v) \/ ValidateSteps(v)

SpecPair == InitPair /\ [][NextPair]_vars

\* validate_with_fallback is called on a validator, or get_fallback_domains
\* is called on its own.
InitFallback ==
    /\ InitObjects
    /\ assoc = NoAssoc
    /\ call = [v \in Validators |-> "validate"]
    /\ \/ live = {Outer} /\ util = NoUtil
       \/ /\ live = {}
          /\ util \in { [NoUtil EXCEPT !.call = "get_fallback_domains",
                                        !.phase = "input", !.arg = t] : t \in UtilInputs }

NextFallback ==
    \/ Construct(Outer)
    \/ CallValidateWithFallback
    \/ StartAttempt
    \/ \E a \in AttemptValidators : ValidateSteps(a)
    \/ FinishAttempt
    \/ ReturnFallback
    \/ ApplyGetFallbackDomains

SpecFallback == InitFallback /\ [][NextFallback]_vars

\* The domain_utils functions, each called on its own.
InitDomain ==
    /\ InitObjects
    /\ live = {}
    /\ assoc = NoAssoc
    /\ call = [v \in Validators |-> "validate"]
    /\ \/ \E t \in UserInputs :
            util = [call |-> "extract_domain_from_input", phase |-> "input",
                    arg |-> t, out |-> <<>>]
       \/ \E t \in FormatInputs :
            util = [call |-> "is_valid_domain_format", phase |-> "input",
                    arg |-> t, out |-> <<>>]

NextDomain ==
    \/ ApplyExtractDomainFromInput
    \/ ApplyIsValidDomainFormat

SpecDomain == InitDomain /\ [][NextDomain]_vars

\* _assess_security called on its own.
InitScore ==
    /\ InitObjects
    /\ live = {}
    /\ assoc = NoAssoc
    /\ call = [v \in Validators |-> "validate"]
    /\ \E r \in ScoreInputs :
          util = [call |-> "_assess_security", phase |-> "input", arg |-> r, out |-> <<>>]

NextScore == ApplyAssessSecurity

SpecScore == InitScore /\ [][NextScore]_vars

\* initialize_database runs once, at start-up.
InitDbInit ==
    /\ InitObjects
    /\ live = {}
    /\ assoc = NoAssoc
    /\ call = [v \in Validators |-> "validate"]
    /\ \E env \in DbEnvironments : util = DbRun(env)

NextDbInit ==
    \/ DbReadEnv
    \/ DbTestConnection
    \/ DbFirstInfo
    \/ DbOperate
    \/ DbFinish

SpecDbInit == InitDbInit /\ [][NextDbInit]_vars

\* get_hourly_requests called on its own.
InitStats ==
    /\ InitObjects
    /\ live = {}
    /\ assoc = NoAssoc
    /\ call = [v \in Validators |-> "validate"]
    /\ \E a \in HourlyInputs :
          util = [call |-> "get_hourly_requests", phase |-> "input", arg |-> a, out |-> <<>>]

NextStats == ApplyGetHourlyRequests

SpecStats == InitStats /\ [][NextStats]_vars

\* _analyze_signatures called on its own.
InitSignatures ==
    /\ InitObjects
    /\ live = {}
    /\ assoc = NoAssoc
    /\ call = [v \in Validators |-> "validate"]
    /\ \E now \in CurrentTimes : \E rs \in SeqUpTo(RrsigsAt(now), MaxRecords) :
          util = [call |-> "_analyze_signatures", phase |-> "input",
                  arg |-> [rrsig |-> rs, current_time |-> now], out |-> <<>>]

NextSignatures == ApplyAnalyzeSignatures

SpecSignatures == InitSignatures /\ [][NextSignatures]_vars

(***************************************************************************)
(* Properties of validate()                                                *)
(***************************************************************************)
\* validate() has returned self.results to its caller.
Returned(v) == pc[v] = "returned"

\* What the resolver did to the DNSKEY query and to the DS query.
DnskeyOutcome(v) == dnsLog[v][1].outcome
DsQueried(v)     == Len(dnsLog[v]) >= 2
DsOutcome(v)     == dnsLog[v][2].outcome

\* The query found no records: NXDOMAIN, NoAnswer or an empty answer.
NoRecords(o) ==
    \/ o.kind = "raise" /\ o.exc \in {"NXDOMAIN", "NoAnswer"}
    \/ o.kind = "answer" /\ o.rrset = <<>>

\* The query returned at least one record.
SomeRecords(o) == o.kind = "answer" /\ o.rrset # <<>>

\* The query failed in transport: a timeout or SERVFAIL.
TransportFailure(o) == o.kind = "raise" /\ o.exc \in {"Timeout", "SERVFAIL"}

\* Every field of every record can be read (no mocked record that raises).
AllReadable(o) == \A i \in 1..Len(o.rrset) : o.rrset[i].readable

\* The domain text as a fully qualified name: with one "." at its end.
AbsoluteText(d) == IF d[Len(d)] = "." THEN d ELSE d \o <<".">>

\* C1 as amended: when the DNSKEY query returns no records (NXDOMAIN,
\* NoAnswer or an empty answer), validate() returns status 'insecure' and
\* chain_of_trust holds exactly one link {zone: the fully qualified text of
\* the domain (the domain followed by a dot), status: 'insecure', error: 'No
\* DNSKEY records found - domain is not signed'}; no DS query is issued and
\* records.dnskey and records.ds stay empty.
C1_UnsignedIsInsecure ==
    \A v \in Validators :
        (Returned(v) /\ NoRecords(DnskeyOutcome(v))) =>
            /\ results[v].status = "insecure"
            /\ results[v].chain_of_trust =
                   << [ zone   |-> AbsoluteText(domain[v]),
                        status |-> "insecure",
                        error  |-> <<"No", "DNSKEY", "records", "found", "-",
                                     "domain", "is", "not", "signed">> ] >>
            /\ Len(dnsLog[v]) = 1
            /\ results[v].records.dnskey = <<>>
            /\ results[v].records.ds = <<>>

\* C1 as stated: the same, with the link's zone equal to the domain.
C1_ZoneIsDomain ==
    \A v \in Validators :
        (Returned(v) /\ NoRecords(DnskeyOutcome(v))) =>
            /\ results[v].status = "insecure"
            /\ results[v].chain_of_trust =
                   << [ zone   |-> domain[v],
                        status |-> "insecure",
                        error  |-> <<"No", "DNSKEY", "records", "found", "-",
                                     "domain", "is", "not", "signed">> ] >>
            /\ Len(dnsLog[v]) = 1
            /\ results[v].records.dnskey = <<>>
            /\ results[v].records.ds = <<>>

\* C1 witness: validate() returned for bondit.dk after an NXDOMAIN answer to
\* the DNSKEY query.
C1_Witness ==
    \E v \in Validators :
        /\ Returned(v)
        /\ domain[v] = <<"bondit", ".", "dk">>
        /\ DnskeyOutcome(v) = Raise("NXDOMAIN")
        /\ results[v].status = "insecure"

\* C2: when the DNSKEY query returns at least one record and the DS query
\* returns none, validate() returns status 'invalid' and the single chain
\* link has status 'invalid' and an error text that contains 'no DS record',
\* compared without case.
C2_SignedWithoutDsIsInvalid ==
    \A v \in Validators :
        (Returned(v) /\ SomeRecords(DnskeyOutcome(v)) /\ DsQueried(v)
            /\ NoRecords(DsOutcome(v))) =>
            /\ results[v].status = "invalid"
            /\ Len(results[v].chain_of_trust) = 1
            /\ results[v].chain_of_trust[1].status = "invalid"
            /\ Contains(Lower(results[v].chain_of_trust[1].error),
                        Lower(<<"no", "DS", "record">>))

\* C2 witness: DNSKEY records and a NoAnswer to the DS query.
C2_Witness ==
    \E v \in Validators :
        /\ Returned(v)
        /\ SomeRecords(DnskeyOutcome(v))
        /\ DsQueried(v)
        /\ DsOutcome(v) = Raise("NoAnswer")
        /\ results[v].status = "invalid"

\* Some DS key tag is the computed key tag of some DNSKEY record.
KeyTagsMeet(dnskey, ds) ==
    \E i \in 1..Len(dnskey), j \in 1..Len(ds) : ds[j].key_tag = KeyId(dnskey[i])

\* C3: when both DNSKEY and DS records are returned (and read without an
\* exception), validate() returns 'valid' exactly when a DS key tag equals the
\* key tag computed from one of the DNSKEY records; otherwise it returns
\* 'invalid' and the chain link's error is 'DS records do not match any DNSKEY
\* records'.
C3_ValidIffKeyTagsMeet ==
    \A v \in Validators :
        (Returned(v) /\ SomeRecords(DnskeyOutcome(v)) /\ AllReadable(DnskeyOutcome(v))
            /\ DsQueried(v) /\ SomeRecords(DsOutcome(v)) /\ AllReadable(DsOutcome(v))) =>
            LET meet == KeyTagsMeet(DnskeyOutcome(v).rrset, DsOutcome(v).rrset)
            IN  /\ (results[v].status = "valid") <=> meet
                /\ ~meet =>
                    /\ results[v].status = "invalid"
                    /\ Len(results[v].chain_of_trust) = 1
                    /\ results[v].chain_of_trust[1].status = "invalid"
                    /\ results[v].chain_of_trust[1].error =
                           <<"DS", "records", "do", "not", "match", "any",
                             "DNSKEY", "records">>

\* C3 witness: two DNSKEY records of which only the second has the key tag of
\* the DS record, and the verdict 'valid'.
C3_Witness ==
    \E v \in Validators :
        /\ Returned(v)
        /\ SomeRecords(DnskeyOutcome(v)) /\ DsQueried(v) /\ SomeRecords(DsOutcome(v))
        /\ Len(DnskeyOutcome(v).rrset) = 2
        /\ KeyId(DnskeyOutcome(v).rrset[1]) # DsOutcome(v).rrset[1].key_tag
        /\ KeyId(DnskeyOutcome(v).rrset[2]) = DsOutcome(v).rrset[1].key_tag
        /\ results[v].status = "valid"

\* C4 as stated: when the DNSKEY or the DS query fails in transport (timeout,
\* SERVFAIL), validate() returns status 'error' and the errors list holds a
\* message about the failure.
C4_TransportFailureIsError ==
    \A v \in Validators :
        (Returned(v) /\ (\/ TransportFailure(DnskeyOutcome(v))
                         \/ DsQueried(v) /\ TransportFailure(DsOutcome(v)))) =>
            /\ results[v].status = "error"
            /\ results[v].errors # <<>>

\* A validate() call that has started and not returned has a next step:
\* it is at a program point of validate(), and while it waits for
\* validate_tlsa that call is running or has returned.
HasNextStep(v) ==
    \/ pc[v] \in {"constructed", "have_dnskey", "query_ds", "have_ds", "chain_done",
                  "tlsa", "summary_done"}
    \/ pc[v] = "tlsa_wait" /\ tpc[v] \in {"query", "connect", "associate", "returned"}

\* C5: whatever the DNS and TLSA collaborators return or raise, a validate()
\* call on a constructed validator is never ended by an exception (until it
\* returns it always has a next step), and the status it returns is 'valid',
\* 'invalid', 'insecure' or 'error', never 'unknown'.
C5_StatusIsTerminal ==
    \A v \in Validators :
        /\ Returned(v) => results[v].status \in {"valid", "invalid", "insecure", "error"}
        /\ pc[v] \notin {"new", "ctor_raised", "returned"} => HasNextStep(v)

\* C5 witness: a record whose key tag cannot be computed and a TLSA
\* validator that raises; validate() returned all the same.
C5_Witness ==
    \E v \in Validators :
        /\ Returned(v)
        /\ results[v].errors # <<>>
        /\ results[v].chain_of_trust = <<>>
        /\ results[v].tlsa_summary.status = "error"

\* The DNSSEC verdict of a results dict.
Verdict(r) == <<r.status, r.chain_of_trust, r.records>>

\* _add_tlsa_summary is running or has run.
InTlsaCheck(v) == pc[v] \in {"tlsa", "tlsa_wait", "summary_done"}

\* How the TLSA check went, read from the calls made: the TLSA validator
\* raised before it queried, the TLSA query failed in transport, the
\* certificate could not be retrieved.
TlsaValidatorRaised(p, log)  == p \in {"summary_done", "returned"} /\ log = <<>>
TlsaQueryFailed(log) ==
    Len(log) >= 1 /\ log[1].outcome = "raise" /\ log[1].exc \in {"Timeout", "SERVFAIL"}
TlsaCertFailed(log) == Len(log) = 2 /\ log[2].outcome = "raise"

\* C6 as amended: no step of the TLSA quick check changes status,
\* chain_of_trust or records, so they are the same whether the check succeeds,
\* finds no records or fails; when the TLSA validator raises or the TLSA query
\* fails, the returned tlsa_summary has status 'error', and when only the
\* certificate retrieval fails it has status 'cert_unavailable'.
C6_TlsaNeverChangesVerdict ==
    [][\A v \in Validators :
          /\ InTlsaCheck(v) => Verdict(results'[v]) = Verdict(results[v])
          /\ pc'[v] = "returned" =>
                /\ (TlsaValidatorRaised(pc'[v], netLog'[v]) \/ TlsaQueryFailed(netLog'[v])) =>
                        results'[v].tlsa_summary.status = "error"
                /\ TlsaCertFailed(netLog'[v]) =>
                        results'[v].tlsa_summary.status = "cert_unavailable"
      ]_vars

\* C6 as stated: the verdict is untouched, and whenever the TLSA check fails
\* (the validator raises, the query fails or the certificate cannot be
\* retrieved) tlsa_summary has status 'error'.
C6_FailedCheckIsError ==
    [][\A v \in Validators :
          /\ InTlsaCheck(v) => Verdict(results'[v]) = Verdict(results[v])
          /\ pc'[v] = "returned" =>
                ((\/ TlsaValidatorRaised(pc'[v], netLog'[v])
                  \/ TlsaQueryFailed(netLog'[v])
                  \/ TlsaCertFailed(netLog'[v])) =>
                        results'[v].tlsa_summary.status = "error")
      ]_vars

\* C6 witness: a 'valid' verdict returned although the TLSA query timed out.
C6_Witness ==
    \E v \in Validators :
        /\ Returned(v)
        /\ results[v].status = "valid"
        /\ TlsaQueryFailed(netLog[v])
        /\ results[v].tlsa_summary.status = "error"

(***************************************************************************)
(* Properties of the TLSA validator                                        *)
(***************************************************************************)
\* A lone _validate_single_association call has returned.
SingleDone == assoc.call = "single" /\ assoc.phase = "done"

\* The certificate part a selector stands for (RFC 6698, section 2.1.2),
\* taken from the certificate itself.
PartOf(selector, der) == IF selector = 0 THEN der ELSE SpkiOf(der)

\* C7: _validate_single_association computes, for selector 0 the full DER
\* certificate and for selector 1 the DER SubjectPublicKeyInfo, the raw hex
\* (matching type 0), the SHA-256 hex (1) or the SHA-512 hex (2) of that data;
\* any other selector or matching type gives an invalid association whose
\* reason names the unsupported selector or matching type.
C7_SelectorAndMatchingType ==
    SingleDone =>
        LET rec == assoc.records[1]
            out == assoc.single
            part == PartOf(rec.selector, assoc.der)
        IN  /\ (rec.selector \in {0, 1} /\ rec.mtype = 0) => out.computed_hash = Hex(part)
            /\ (rec.selector \in {0, 1} /\ rec.mtype = 1) =>
                    out.computed_hash = Hex(Sha256(part))
            /\ (rec.selector \in {0, 1} /\ rec.mtype = 2) =>
                    out.computed_hash = Hex(Sha512(part))
            /\ (rec.selector \in {0, 1} /\ rec.mtype \in {0, 1, 2}) =>
                    out.data_length = Len(part)
            /\ rec.selector \notin {0, 1} =>
                    /\ ~out.valid
                    /\ Contains(out.reason, <<"Unsupported", "selector">>)
                    /\ out.reason[Len(out.reason)] = ToString(rec.selector)
            /\ (rec.selector \in {0, 1} /\ rec.mtype \notin {0, 1, 2}) =>
                    /\ ~out.valid
                    /\ Contains(out.reason, <<"Unsupported", "matching", "type:">>)
                    /\ out.reason[Len(out.reason)] = ToString(rec.mtype)

\* C7 witness: the SHA-512 of the public key was computed and matched.
C7_Witness ==
    /\ SingleDone
    /\ assoc.records[1].selector = 1
    /\ assoc.records[1].mtype = 2
    /\ assoc.single.valid
    /\ assoc.single.computed_hash = Hex(Sha512(SpkiOf(assoc.der)))

\* The TLSA record was built from the SHA-256 of the public key of the
\* certificate the caller started with (selector 1, matching type 1), its
\* hex digits in either case.
PinsOriginalKey(rec, original) ==
    /\ rec.selector = 1
    /\ rec.mtype = 1
    /\ Lower(rec.cert_assoc_data) = Hex(Sha256(SpkiOf(original)))

MsgNoAssocMatch == <<"Certificate", "association", "does", "not", "match", "TLSA", "record">>

\* C8 as amended: an association of a supported selector and matching type
\* is valid exactly when the computed hex equals cert_assoc_data without
\* regard to case; a record built from the SHA-256 of a certificate's public
\* key is valid for that certificate, and after a single byte of the
\* certificate's SubjectPublicKeyInfo is changed it is invalid with reason
\* 'Certificate association does not match TLSA record' (a changed byte
\* outside the SubjectPublicKeyInfo leaves it valid).
C8_ValidIffHexEqual ==
    SingleDone =>
        LET rec == assoc.records[1]
            out == assoc.single
        IN  /\ (rec.selector \in {0, 1} /\ rec.mtype \in {0, 1, 2}) =>
                    (out.valid <=> Lower(out.computed_hash) = Lower(rec.cert_assoc_data))
            /\ PinsOriginalKey(rec, assoc.original) =>
                    /\ assoc.der = assoc.original => out.valid
                    /\ SpkiOf(assoc.der) # SpkiOf(assoc.original) =>
                            ~out.valid /\ out.reason = MsgNoAssocMatch
                    /\ SpkiOf(assoc.der) = SpkiOf(assoc.original) => out.valid

\* C8 as stated: after any single byte of the certificate is changed the
\* record built from the SHA-256 of its public key is reported invalid.
C8_AnyChangedByteIsInvalid ==
    (SingleDone /\ PinsOriginalKey(assoc.records[1], assoc.original)) =>
        /\ assoc.der = assoc.original => assoc.single.valid
        /\ assoc.der # assoc.original =>
                ~assoc.single.valid /\ assoc.single.reason = MsgNoAssocMatch

\* C8 witness: a record with the digest in capitals was valid for the
\* certificate, and is invalid now that a byte of the public key is changed.
C8_Witness ==
    /\ SingleDone
    /\ PinsOriginalKey(assoc.records[1], assoc.original)
    /\ assoc.records[1].cert_assoc_data # Lower(assoc.records[1].cert_assoc_data)
    /\ SpkiOf(assoc.der) # SpkiOf(assoc.original)
    /\ ~assoc.single.valid
    /\ assoc.single.reason = MsgNoAssocMatch

\* How often a TLSA record stands in a list of records, and in the
\* tlsa_record fields of a list of associations.
TimesIn(rec, recs) == Cardinality({i \in 1..Len(recs) : recs[i] = rec})
TimesAmong(rec, assocs) ==
    Cardinality({i \in 1..Len(assocs) : assocs[i].tlsa_record = rec})

\* Every record is in exactly one of the two lists, once per time it was
\* given, and the lists hold nothing else.
Partitioned(recs, valids, invalids) ==
    /\ Len(valids) + Len(invalids) = Len(recs)
    /\ \A i \in 1..Len(valids) : valids[i].valid
    /\ \A i \in 1..Len(invalids) : ~invalids[i].valid
    /\ \A i \in 1..Len(recs) :
            TimesAmong(recs[i], valids) + TimesAmong(recs[i], invalids)
                = TimesIn(recs[i], recs)
    /\ \A i \in 1..Len(recs) :
            TimesAmong(recs[i], valids) = 0 \/ TimesAmong(recs[i], invalids) = 0

\* The status C9 names for the two lists; none stands for 'no_matches' in
\* validate_tlsa and for 'no_associations' in _validate_dane_associations.
StatusFor(valids, invalids, none) ==
    IF Len(valids) >= 1 THEN "valid"
    ELSE IF Len(invalids) >= 1 THEN "invalid"
    ELSE none

\* validate_tlsa has returned and the certificate was retrieved.
CertRetrieved(t) ==
    /\ tpc[t] = "returned"
    /\ Len(netLog[t]) = 2
    /\ netLog[t][2].outcome = "cert"

\* C9: once the certificate is retrieved, tlsa_status is 'valid' if any
\* association is valid, else 'invalid' if any is invalid, else 'no_matches'
\* (DANE status 'no_associations'); every TLSA record is in exactly one of
\* the valid and invalid lists and their sizes add up to the number of
\* records.
C9_StatusFromAssociations ==
    /\ \A t \in TlsaObjs :
          CertRetrieved(t) =>
              LET val == tresult[t].dane_validation
              IN  /\ tresult[t].tlsa_status =
                        StatusFor(val.valid_associations, val.invalid_associations,
                                  "no_matches")
                  /\ val.status =
                        StatusFor(val.valid_associations, val.invalid_associations,
                                  "no_associations")
                  /\ Partitioned(tresult[t].tlsa_records,
                                 val.valid_associations, val.invalid_associations)
                  /\ val.summary.valid_associations + val.summary.invalid_associations
                        = Len(tresult[t].tlsa_records)
    /\ (assoc.call = "dane" /\ assoc.phase = "done") =>
          /\ assoc.dane.status =
                StatusFor(assoc.dane.valid_associations, assoc.dane.invalid_associations,
                          "no_associations")
          /\ Partitioned(assoc.records,
                         assoc.dane.valid_associations, assoc.dane.invalid_associations)

\* C9 witness: validate_tlsa found one valid and one invalid association and
\* reports 'valid'.
C9_Witness ==
    \E t \in TlsaObjs :
        /\ CertRetrieved(t)
        /\ Len(tresult[t].dane_validation.valid_associations) = 1
        /\ Len(tresult[t].dane_validation.invalid_associations) = 1
        /\ tresult[t].tlsa_status = "valid"

\* The TLSA query of a returned validate_tlsa found no records: NXDOMAIN,
\* NoAnswer or an empty answer.
NoTlsaRecords(t) ==
    /\ tpc[t] = "returned"
    /\ Len(netLog[t]) >= 1
    /\ \/ netLog[t][1].outcome = "raise" /\ netLog[t][1].exc \in {"NXDOMAIN", "NoAnswer"}
       \/ netLog[t][1].outcome = "answer" /\ netLog[t][1].count = 0

\* C10: validate_tlsa asks for the TLSA records of
\* _<port>._<protocol>.<domain>; when there are none (NXDOMAIN, NoAnswer or
\* an empty answer) it returns tlsa_status 'no_records' with a warning and no
\* errors, and never attempts the TLS connection.
C10_NoRecordsNoConnection ==
    \A t \in TlsaObjs :
        /\ (tpc[t] \notin {"idle", "query"} /\ netLog[t] # <<>>) =>
              LET name == netLog[t][1].name
              IN  /\ netLog[t][1].op = "dns"
                  /\ netLog[t][1].rdtype = "TLSA"
                  /\ Len(name) = 4 + Len(targs[t].domain)
                  /\ name[1] = "_" \o ToString(targs[t].port)
                  /\ name[2] = "."
                  /\ name[3] = "_" \o targs[t].protocol
                  /\ name[4] = "."
                  /\ SubSeq(name, 5, Len(name)) = targs[t].domain
        /\ NoTlsaRecords(t) =>
              /\ tresult[t].tlsa_status = "no_records"
              /\ Len(tresult[t].warnings) >= 1
              /\ tresult[t].errors = <<>>
              /\ \A i \in 1..Len(netLog[t]) : netLog[t][i].op # "tls"
              /\ ~tresult[t].certificate_info.present

\* C10 witness: the name _25._udp.<domain> does not exist and validate_tlsa
\* returned 'no_records'.
C10_Witness ==
    \E t \in TlsaObjs :
        /\ NoTlsaRecords(t)
        /\ netLog[t][1].exc = "NXDOMAIN"
        /\ targs[t].port = 25
        /\ targs[t].protocol = "udp"
        /\ tresult[t].tlsa_status = "no_records"

\* validate_tlsa has returned; its TLSA query found records and the
\* certificate retrieval that followed failed.
CertRetrievalFailed(t) ==
    /\ tpc[t] = "returned"
    /\ Len(netLog[t]) = 2
    /\ netLog[t][1].outcome = "answer"
    /\ netLog[t][1].count >= 1
    /\ netLog[t][2].op = "tls"
    /\ netLog[t][2].outcome = "raise"

\* C11: when TLSA records were found but retrieving the server certificate
\* fails, validate_tlsa returns tlsa_status 'cert_unavailable', records the
\* failure in errors, still returns the TLSA records it found, and reports no
\* valid and no invalid association.
C11_CertUnavailable ==
    \A t \in TlsaObjs :
        CertRetrievalFailed(t) =>
            /\ tresult[t].tlsa_status = "cert_unavailable"
            /\ Len(tresult[t].errors) = 1
            /\ Contains(tresult[t].errors[1], <<"certificate", "retrieval", "failed:">>)
            /\ Len(tresult[t].tlsa_records) = netLog[t][1].count
            /\ \A i \in 1..Len(tresult[t].tlsa_records) :
                    tresult[t].tlsa_records[i].name = netLog[t][1].name
            /\ tresult[t].dane_validation.valid_associations = <<>>
            /\ tresult[t].dane_validation.invalid_associations = <<>>
            /\ ~tresult[t].certificate_info.present

\* C11 witness: two TLSA records were found, the handshake failed, and both
\* records are in the result.
C11_Witness ==
    \E t \in TlsaObjs :
        /\ CertRetrievalFailed(t)
        /\ Len(tresult[t].tlsa_records) = 2
        /\ tresult[t].tlsa_status = "cert_unavailable"

(***************************************************************************)
(* Properties of validate_with_fallback and get_fallback_domains           *)
(***************************************************************************)
\* The loop of validate_with_fallback has ended.
LoopEnded == fb.pc \in {"after_loop", "returned"}

\* validate_with_fallback has returned.
FallbackReturned == fb.pc = "returned"

\* The status and the domain of the k-th validate() run that returned.
RunStatus(k) == returns[k].result.status
RunDomain(k) == returns[k].result.domain

C13_ResultOfLastAttempt ==
    (FallbackReturned /\ Len(returns) >= 1) =>
        LET n    == Len(returns)
            info == fb.ret.fallback_info
        IN  /\ fb.ret.result.status = RunStatus(n)
            /\ info.validated_domain = RunDomain(n)
            /\ info.validated_domain = fb.domains_to_try[n]
            /\ info.fallback_used <=> n > 1
            /\ (n = 2 /\ RunStatus(1) = "invalid" /\ RunStatus(2) = "valid") =>
                    fb.ret.result.status = "valid" /\ info.fallback_used
            /\ Len(SplitDots(domain[Outer])) <= 2 =>
                    /\ ~info.fallback_used
                    /\ info.total_attempts = 1
                    /\ Len(fb.validation_attempts) = 1
                    /\ n = 1

\* C13 witness: www.bondit.dk was 'invalid', bondit.dk 'valid', and the
\* result is 'valid' with fallback_used true.
C13_Witness ==
    /\ FallbackReturned
    /\ Len(returns) = 2
    /\ RunStatus(1) = "invalid"
    /\ RunStatus(2) = "valid"
    /\ fb.ret.result.status = "valid"
    /\ fb.ret.fallback_info.fallback_used
    /\ fb.ret.fallback_info.validated_domain = <<"bondit", ".", "dk">>

\* The root of a name as C14 words it: its last two labels, or its last
\* three when the last two form a compound TLD.
RootOf(d) ==
    LET l == SplitDots(d)
        n == Len(l)
    IN  IF n >= 3 /\ l[n - 1] \o <<".">> \o l[n] \in two_part_tlds
        THEN l[n - 2] \o <<".">> \o l[n - 1] \o <<".">> \o l[n]
        ELSE IF n >= 2 THEN l[n - 1] \o <<".">> \o l[n]
        ELSE d

\* A lone get_fallback_domains call has returned.
FallbackDomainsDone == util.call = "get_fallback_domains" /\ util.phase = "done"

\* C14 as amended: get_fallback_domains(d) returns [] when d is empty, [d]
\* when d is not a valid domain format, has at most two labels or its root
\* domain equals d, and otherwise [d, root], where root is the last two
\* labels of d, or the last three when the last two form one of the
\* compound TLDs; a list that is not empty starts with d, and the list has
\* at most two entries and never repeats a domain.
C14_FallbackDomains ==
    FallbackDomainsDone =>
        LET d   == util.arg
            out == util.out
        IN  /\ d = <<>> => out = <<>>
            /\ (d # <<>> /\ ( \/ ~IsValidDomainFormat(d)
                              \/ Len(SplitDots(d)) <= 2
                              \/ RootOf(d) = d )) => out = <<d>>
            /\ (d # <<>> /\ IsValidDomainFormat(d) /\ Len(SplitDots(d)) > 2
                    /\ RootOf(d) # d) => out = <<d, RootOf(d)>>
            /\ out # <<>> => out[1] = d
            /\ Len(out) <= 2
            /\ Len(out) = 2 => out[1] # out[2]

\* C14 as stated: [d] when d has at most two labels or its root equals d,
\* otherwise [d, root]; the list starts with d.
C14_RootUnlessTwoLabels ==
    FallbackDomainsDone =>
        LET d   == util.arg
            out == util.out
        IN  /\ (Len(SplitDots(d)) <= 2 \/ RootOf(d) = d) => out = <<d>>
            /\ (Len(SplitDots(d)) > 2 /\ RootOf(d) # d) => out = <<d, RootOf(d)>>
            /\ Len(out) >= 1 /\ out[1] = d
            /\ Len(out) <= 2
            /\ Len(out) = 2 => out[1] # out[2]

\* C14 witness: www.bondit.co.uk falls back to bondit.co.uk.
C14_Witness ==
    /\ FallbackDomainsDone
    /\ util.arg = <<"www", ".", "bondit", ".", "co", ".", "uk">>
    /\ util.out = <<util.arg, <<"bondit", ".", "co", ".", "uk">> >>

\* C15: fallback_info.total_attempts is the number of validation attempts
\* run, the attempts are recorded in the order run, the first of type
\* 'primary' and any later one 'fallback', the per-attempt summaries are
\* present exactly when more than one attempt was made, and fallback_used
\* is true only if a fallback attempt was run.
C15_FallbackInfoCountsAttempts ==
    FallbackReturned =>
        LET info == fb.ret.fallback_info
        IN  /\ info.total_attempts = Len(returns)
            /\ Len(fb.validation_attempts) = Len(returns)
            /\ \A k \in 1..Len(returns) :
                  /\ fb.validation_attempts[k].domain = RunDomain(k)
                  /\ fb.validation_attempts[k].result = returns[k].result
                  /\ fb.validation_attempts[k].attempt_type =
                        IF k = 1 THEN "primary" ELSE "fallback"
            /\ info.has_attempts <=> Len(returns) > 1
            /\ info.has_attempts =>
                  /\ Len(info.attempts) = Len(returns)
                  /\ \A k \in 1..Len(returns) :
                        /\ info.attempts[k].domain = RunDomain(k)
                        /\ info.attempts[k].status = RunStatus(k)
                        /\ info.attempts[k].type = IF k = 1 THEN "primary" ELSE "fallback"
            /\ info.fallback_used => Len(returns) >= 2

(***************************************************************************)
(* Properties of repeated and of concurrent validations                    *)
(***************************************************************************)
\* C16: two validate() runs for the same domain under identical DNS
\* responses return identical status, chain_of_trust and records.
C16_Idempotent ==
    \A i, j \in 1..Len(returns) :
        ( /\ returns[i].method = "validate"
          /\ returns[j].method = "validate"
          /\ RunDomain(i) = RunDomain(j)
          /\ returns[i].responses = returns[j].responses ) =>
            Verdict(returns[i].result) = Verdict(returns[j].result)

\* The value a returned dict has now: validate() returned self.results
\* itself; validate_detailed() returned a dict with a copy of the status and
\* the chain_of_trust and records objects of self.results.
CurrentValue(e) ==
    IF e.method = "validate" THEN results[e.v]
    ELSE [results[e.v] EXCEPT !.status = e.result.status]

\* C17: a result is never mutated after it has been returned: a later
\* validate() or validate_detailed() call on the same validator leaves the
\* status, chain_of_trust and records of an earlier result unchanged.
C17_ReturnedResultIsFrozen ==
    \A i \in 1..Len(returns) :
        Verdict(CurrentValue(returns[i])) = Verdict(returns[i].result)

\* What validate() returns for a domain when it runs alone and meets the
\* resolver answers of log and the TLSA summary given.
AloneResult(d, log, summary) ==
    LET zone   == FromText(d)
        dnskey == QueryDnskeyResult(log[1].outcome)
        first  == AfterDnskey(InitResults(d), zone, dnskey)
        second == IF first.returns
                  THEN [value |-> FALSE, results |-> first.results]
                  ELSE AfterDs(first.results, zone, dnskey, QueryDsResult(log[2].outcome))
    IN  WithSummary(
            [second.results EXCEPT
                !.status = StatusAfterChain(second.value, second.results.status)],
            summary)

\* C18: validations running concurrently on distinct validators share no
\* mutable state: under every interleaving of their steps each validator's
\* result is the result it produces when run alone with the same DNS
\* responses.
C18_ConcurrentRunsAreIsolated ==
    \A v \in Pair :
        Returned(v) =>
            /\ results[v] = AloneResult(domain[v], dnsLog[v], results[v].tlsa_summary)
            /\ results[v].tlsa_summary =
                    IF netLog[v] = <<>> THEN FailedSummary ELSE TlsaSummary(tresult[v])
            /\ \A k \in 1..Len(dnsLog[v]) : dnsLog[v][k].name = ToText(FromText(domain[v]))
            /\ tresult[v].tlsa_status # "absent" => tresult[v].domain = domain[v]

\* C18 witness: both validators have returned, for the same domain, the one
\* 'valid' and the other 'insecure'.
C18_Witness ==
    /\ Returned("p1")
    /\ Returned("p2")
    /\ domain["p1"] = domain["p2"]
    /\ results["p1"].status = "valid"
    /\ results["p2"].status = "insecure"

\* C19: a malformed domain string that reaches the validator yields a
\* result with status 'error'; no exception leaves the constructor or
\* validate().
C19_MalformedIsError ==
    \A v \in Validators :
        /\ pc[v] # "ctor_raised"
        /\ (Returned(v) /\ ~IsValidDomainFormat(domain[v])) => results[v].status = "error"

\* C20: after validate(), records.dnskey holds one entry (flags, protocol,
\* algorithm, computed key tag) per DNSKEY record returned and records.ds
\* one entry per DS record returned, in response order (the records being
\* read without an exception); on a 'valid' verdict the single chain link
\* has status 'valid' and the algorithm and key tag of the first DNSKEY.
C20_RecordsStored ==
    \A v \in Validators :
        Returned(v) =>
            /\ (SomeRecords(DnskeyOutcome(v)) /\ AllReadable(DnskeyOutcome(v))) =>
                  LET rrs == DnskeyOutcome(v).rrset
                      got == results[v].records.dnskey
                  IN  /\ Len(got) = Len(rrs)
                      /\ \A i \in 1..Len(rrs) :
                            /\ got[i].flags = rrs[i].flags
                            /\ got[i].protocol = rrs[i].protocol
                            /\ got[i].algorithm = rrs[i].algorithm
                            /\ got[i].key_tag = KeyId(rrs[i])
            /\ (DsQueried(v) /\ SomeRecords(DsOutcome(v)) /\ AllReadable(DsOutcome(v))) =>
                  LET rrs == DsOutcome(v).rrset
                      got == results[v].records.ds
                  IN  /\ Len(got) = Len(rrs)
                      /\ \A i \in 1..Len(rrs) :
                            /\ got[i].key_tag = rrs[i].key_tag
                            /\ got[i].algorithm = rrs[i].algorithm
                            /\ got[i].digest_type = rrs[i].digest_type
                            /\ got[i].digest = Hex(rrs[i].digest)
            /\ results[v].status = "valid" =>
                  /\ Len(results[v].chain_of_trust) = 1
                  /\ results[v].chain_of_trust[1].status = "valid"
                  /\ results[v].chain_of_trust[1].algorithm =
                        DnskeyOutcome(v).rrset[1].algorithm
                  /\ results[v].chain_of_trust[1].key_tag =
                        KeyId(DnskeyOutcome(v).rrset[1])

\* C20 witness: a 'valid' verdict on two DNSKEY records of different
\* algorithms and two DS records, all four stored.
C20_Witness ==
    \E v \in Validators :
        /\ Returned(v)
        /\ results[v].status = "valid"
        /\ Len(results[v].records.dnskey) = 2
        /\ Len(results[v].records.ds) = 2
        /\ results[v].records.dnskey[1].algorithm # results[v].records.dnskey[2].algorithm
        /\ results[v].records.ds[1].key_tag # results[v].records.ds[2].key_tag

(***************************************************************************)
(* Properties of domain_utils                                              *)
(***************************************************************************)
\* extract_domain_from_input has returned.
ExtractDone == util.call = "extract_domain_from_input" /\ util.phase = "done"

\* is_valid_domain_format has returned.
FormatDone == util.call = "is_valid_domain_format" /\ util.phase = "done"

\* C21: for every input string extract_domain_from_input returns either None
\* or a string that satisfies is_valid_domain_format (it never raises).
C21_NoneOrValidDomain ==
    ExtractDone => (util.out = NoneText \/ IsValidDomainFormat(util.out))

\* The input as extract_domain_from_input cleans it: trimmed, without
\* spaces, in lower case.
Cleaned(t) == Lower(RemoveSpaces(Strip(t)))

\* The cleaned input is a scheme:// URL.
IsUrl(text) ==
    \E k \in {0, 1} : k + 3 <= Len(text) /\ SubSeq(text, k + 1, k + 3) = SchemeSep

\* The host of a cleaned input: for a scheme:// URL what follows "://" (and
\* the user name, if any) up to the port, path, query or fragment, and for a
\* bare domain the text before the first "/", "?", "#" or ":".
HostOf(text) ==
    IF IsUrl(text)
    THEN LET rest == Before(AfterSchemeSep(text), {"/", "?", "#"})
             ats  == {i \in 1..Len(rest) : rest[i] = "@"}
             host == IF ats = {} THEN rest
                     ELSE SubSeq(rest, (CHOOSE i \in ats : \A j \in ats : j <= i) + 1,
                                 Len(rest))
         IN  Before(host, {":"})
    ELSE Before(text, {"/", "?", "#", ":"})

\* C22: extract_domain_from_input trims the input, removes its spaces,
\* lowercases it and returns only the host: whatever it returns is the host
\* of the cleaned input, and a host that is a valid domain is returned.
C22_ReturnsOnlyTheHost ==
    ExtractDone =>
        LET host == HostOf(Cleaned(util.arg))
        IN  /\ util.out # NoneText => util.out = host
            /\ IsValidDomainFormat(host) => util.out = host

\* The DomainName format: lowercase labels separated by dots with no
\* trailing dot, at most 253 characters, each label matching
\* [a-z0-9]([a-z0-9-]*[a-z0-9])?, at least two labels, and a last label of
\* at least 2 characters.
IsDomainName(t) ==
    LET parts == SplitDots(t)
    IN  /\ t # <<>>
        /\ t[Len(t)] # "."
        /\ TextLen(t) <= 253
        /\ \A i \in 1..Len(parts) : LabelMatches(parts[i])
        /\ Len(parts) >= 2
        /\ TextLen(parts[Len(parts)]) >= 2

\* C23: is_valid_domain_format accepts exactly the strings that satisfy the
\* DomainName format.
C23_AcceptsExactlyDomainNames ==
    FormatDone => (util.out = IsDomainName(util.arg))

(***************************************************************************)
(* Properties of the DANE security score                                   *)
(***************************************************************************)
\* _assess_security has returned.
AssessDone == util.call = "_assess_security" /\ util.phase = "done"

\* How many of the records satisfy a test.
CountOf(recs, Test(_)) == Cardinality({i \in 1..Len(recs) : Test(recs[i])})

StrongHash(rec) == rec.mtype \in {1, 2}
DaneEe(rec) == rec.usage = 3

\* The certificate of a result has expired.
Expired(result) == result.has_cert /\ result.validity.days_remaining < 0

\* C24: the overall_score is the sum of +40 for a valid TLSA status, +10 per
\* record with a SHA-256 or SHA-512 matching type, +15 per DANE-EE record,
\* +20 for a currently valid certificate and -20 for an expired one, kept
\* within 0..100.
C24_ScoreIsWeightedSum ==
    AssessDone =>
        LET r == util.arg
        IN  util.out.overall_score =
                Clamp( (IF r.tlsa_status = "valid" THEN 40 ELSE 0)
                       + 10 * CountOf(r.tlsa_records, StrongHash)
                       + 15 * CountOf(r.tlsa_records, DaneEe)
                       + (IF r.has_cert /\ r.validity.currently_valid THEN 20 ELSE 0)
                       + (IF Expired(r) THEN -20 ELSE 0) )

(***************************************************************************)
(* Properties of initialize_database                                       *)
(***************************************************************************)
\* The calls of a destructive operation a run has made.
Destructive(run) ==
    {i \in 1..Len(run.calls) : run.calls[i].op \in {"recreate_database", "truncate_database"}}

\* The operation the environment asks for, "none" if it asks for none.
Requested(env) ==
    IF env.recreate THEN "recreate_database"
    ELSE IF env.truncate THEN "truncate_database" ELSE "none"

\* The connection check of a run has passed.
ConnectionPassed(run) == run.client /\ run.health = "pass"

HourlyDone == util.call = "get_hourly_requests" /\ util.phase = "done"

\* C26: get_hourly_requests returns the (timestamp, count) pairs sorted by
\* timestamp, with full ISO timestamps for a sub-daily window and date-only
\* timestamps for the daily window '1d'.
C26_SortedAndDateOnlyWhenDaily ==
    HourlyDone =>
        /\ \A i \in 1..(Len(util.out) - 1) : ~TsLess(util.out[i + 1][1], util.out[i][1])
        /\ \A i \in 1..Len(util.out) :
              IF util.arg.window_every = "1d"
              THEN util.out[i][1].clock = <<>>
              ELSE util.out[i][1].clock # <<>>

(***************************************************************************)
(* Properties of the chain of trust                                        *)
(***************************************************************************)
\* C27 as amended: after validate() on a freshly constructed validator,
\* chain_of_trust has at most one link, and whenever it has one, the link's
\* zone is the fully qualified text of the validated domain (the domain
\* followed by a dot) and the link's status equals the status of the result.
C27_AtMostOneLink ==
    \A v \in Validators :
        Returned(v) =>
            /\ Len(results[v].chain_of_trust) <= 1
            /\ \A i \in 1..Len(results[v].chain_of_trust) :
                  /\ results[v].chain_of_trust[i].zone = AbsoluteText(domain[v])
                  /\ results[v].chain_of_trust[i].status = results[v].status

\* C27 as stated: the same, with the link's zone equal to the domain.
C27_LinkZoneIsDomain ==
    \A v \in Validators :
        Returned(v) =>
            /\ Len(results[v].chain_of_trust) <= 1
            /\ \A i \in 1..Len(results[v].chain_of_trust) :
                  /\ results[v].chain_of_trust[i].zone = domain[v]
                  /\ results[v].chain_of_trust[i].status = results[v].status

\* C27 witness: validate() returned 'invalid' with the one link of DS
\* records that match no DNSKEY.
C27_Witness ==
    \E v \in Validators :
        /\ Returned(v)
        /\ results[v].status = "invalid"
        /\ Len(results[v].chain_of_trust) = 1
        /\ results[v].chain_of_trust[1].error = MsgNoMatch

\* An exception was raised inside chain validation after the DNSKEY query
\* returned records: a key tag could not be computed or a DS record could
\* not be read.
RaisedInChain(v) ==
    /\ SomeRecords(DnskeyOutcome(v))
    /\ \/ ~AllReadable(DnskeyOutcome(v))
       \/ DsQueried(v) /\ SomeRecords(DsOutcome(v)) /\ ~AllReadable(DsOutcome(v))

\* C28: an exception raised inside chain validation after the DNSKEY query
\* returned records does not escape validate(): it is appended to errors as
\* 'Chain validation error: ...', chain_of_trust stays empty and the status
\* returned is 'invalid'; no exception escapes _validate_chain_of_trust, and
\* 'error' is never the status returned.
C28_ChainExceptionIsInvalid ==
    \A v \in Validators :
        Returned(v) =>
            /\ results[v].status # "error"
            /\ RaisedInChain(v) =>
                  /\ \E e \in {"key_id", "digest"} :
                        results[v].errors = <<MsgChainError(e)>>
                  /\ results[v].chain_of_trust = <<>>
                  /\ results[v].status = "invalid"

\* C28 witness: the DNSKEY records were read and stored, a DS record could
\* not be read, and validate() returned.
C28_Witness ==
    \E v \in Validators :
        /\ Returned(v)
        /\ AllReadable(DnskeyOutcome(v))
        /\ RaisedInChain(v)
        /\ results[v].records.dnskey # <<>>
        /\ results[v].errors = <<MsgChainError("digest")>>

(***************************************************************************)
(* Properties of _analyze_signatures                                       *)
(***************************************************************************)
\* _analyze_signatures has returned.
SignaturesDone == util.call = "_analyze_signatures" /\ util.phase = "done"

\* A warning of a kind was emitted for an RRSIG.
Warned(kind, rrsig) ==
    \E i \in 1..Len(util.out.warnings) :
        /\ util.out.warnings[i].kind = kind
        /\ util.out.warnings[i].type_covered = rrsig.type_covered
        /\ util.out.warnings[i].expiration_date = IsoDate(rrsig.expiration)

\* C29: for every collected RRSIG, _analyze_signatures marks it valid
\* exactly when inception <= now <= expiration, emits a 'has expired'
\* warning when its expiration lies in the past, and an 'expires soon'
\* warning when it is not yet expired but expires in less than 7 days.
C29_SignatureWarnings ==
    SignaturesDone =>
        LET now == util.arg.current_time
        IN  /\ Len(util.out.signatures) = Len(util.arg.rrsig)
            /\ \A i \in 1..Len(util.arg.rrsig) :
                  LET rrsig == util.arg.rrsig[i]
                  IN  /\ util.out.signatures[i].valid <=>
                            (rrsig.inception <= now /\ now <= rrsig.expiration)
                      /\ rrsig.expiration < now => Warned("has expired", rrsig)
                      /\ (rrsig.expiration >= now /\ rrsig.expiration - now < 86400 * 7)
                            => Warned("expires soon", rrsig)

(***************************************************************************)
(* Properties of the result of validate_tlsa                               *)
(***************************************************************************)
\* C30: whenever validate_tlsa returns, tlsa_status is a terminal value and
\* never 'unknown' or 'records_found'; dane_validation.status is 'valid' or
\* 'invalid' exactly when tlsa_status is the same value, and for no_records,
\* cert_unavailable and error it is 'unknown' with both association lists
\* empty.
C30_TerminalTlsaStatus ==
    \A t \in TlsaObjs :
        tpc[t] = "returned" =>
            LET dane == tresult[t].dane_validation
            IN  /\ tresult[t].tlsa_status \in
                      {"no_records", "valid", "invalid", "no_matches",
                       "cert_unavailable", "error"}
                /\ dane.status = "valid" <=> tresult[t].tlsa_status = "valid"
                /\ dane.status = "invalid" <=> tresult[t].tlsa_status = "invalid"
                /\ tresult[t].tlsa_status \in {"no_records", "cert_unavailable", "error"} =>
                      /\ dane.status = "unknown"
                      /\ dane.valid_associations = <<>>
                      /\ dane.invalid_associations = <<>>

\* C30 witness: validate_tlsa returned 'valid' with one association that
\* matches and one that does not.
C30_Witness ==
    \E t \in TlsaObjs :
        /\ tpc[t] = "returned"
        /\ tresult[t].tlsa_status = "valid"
        /\ tresult[t].dane_validation.status = "valid"
        /\ tresult[t].dane_validation.valid_associations # <<>>
        /\ tresult[t].dane_validation.invalid_associations # <<>>

====
